---- MODULE Spec2Model ----
(***************************************************************************)
(* Model of the go-options command line parser (src/options/options.go):   *)
(* NewOptions as a loop over the lines of the specification text (one     *)
(* action per branch), OptionSpec.Parse as a loop over the argument tokens *)
(* (one action per kind of loop iteration), the standard parse callback,   *)
(* the callback of the example program, PrintUsageAndExit with the Exit    *)
(* functions a program may install, and the Options accessors.             *)
(*                                                                         *)
(* Strings are sequences of one-character strings, so that the regular     *)
(* expression of Parse, the prefix test, the integer scan of GetInt and    *)
(* the "%d" formatting are computed character by character.                *)
(***************************************************************************)
EXTENDS Integers, Sequences, FiniteSets, TLC

(***************************************************************************)
(* Bounds of the model.                                                    *)
(***************************************************************************)
\* longest argument list handed to Parse
MaxArgs == 3

(***************************************************************************)
(* Characters and strings.                                                 *)
(***************************************************************************)
DecimalDigits == {"0", "1", "2", "3", "4", "5", "6", "7", "8", "9"}

LowerLetters == {"a", "b", "c", "d", "e", "f", "g", "h", "i", "j", "k", "l", "m",
                 "n", "o", "p", "q", "r", "s", "t", "u", "v", "w", "x", "y", "z"}

UpperLetters == {"A", "B", "C", "D", "E", "F", "G", "H", "I", "J", "K", "L", "M",
                 "N", "O", "P", "Q", "R", "S", "T", "U", "V", "W", "X", "Y", "Z"}

\* the class \w of the regular expressions
WordChars == DecimalDigits \cup LowerLetters \cup UpperLetters \cup {"_"}

\* the class [-\w] of the flag name
NameChars == WordChars \cup {"-"}

\* the space characters above U+1680, each written as the name of its code
\* point and taken as one character of a string
WideSpaceChars ==
  {"U+2000", "U+2001", "U+2002", "U+2003", "U+2004", "U+2005", "U+2006", "U+2007",
   "U+2008", "U+2009", "U+200A", "U+2028", "U+2029", "U+202F", "U+205F", "U+3000"}

\* white space skipped by fmt.Sscan before a number: the space table of
\* package fmt, U+0009..U+000D, U+0020, U+0085, U+00A0, U+1680 and the
\* characters above (newlines count as space)
SpaceChars ==
  {"\t", "\n", "", "\f", "\r", " ", "", " ", " "} \cup WideSpaceChars

\* a *string argument: the nil pointer, or a pointer to the string v
Nil == <<>>

Ptr(v) == <<v>>

Deref(p) == p[1]

\* number of leading elements of str that belong to the class cls
PrefixLen(str, cls) ==
  Cardinality({k \in 1..Len(str) : \A j \in 1..k : str[j] \in cls})

\* str without its first n elements
Drop(str, n) == SubSeq(str, n + 1, Len(str))

\* strings.HasPrefix(str, "-")
HasDashPrefix(str) == Len(str) >= 1 /\ str[1] = "-"

\* a map lookup that yields the zero value (the empty string) for a missing key
Lookup(m, k) == IF k \in DOMAIN m THEN m[k] ELSE <<>>

\* a lookup in a map[string]bool: false for a missing key
LookupBool(m, k) == IF k \in DOMAIN m THEN m[k] ELSE FALSE

\* an error message of the parser: its fixed text and the text appended to it
Msg(text, subject) == [text |-> text, subject |-> subject]

(***************************************************************************)
(* flagRe of Parse: one or two dashes, a name of one or more dashes and    *)
(* word characters, then optionally "=" and a value, anchored at both ends *)
(* of the token.  The name is the longest run of name characters after the *)
(* dashes; it must be followed by the end of the token or by "=" and a     *)
(* value in which "." matches every character but the newline.  The dash   *)
(* group prefers two dashes and falls back to one when no name character   *)
(* would remain.                                                           *)
(***************************************************************************)
FlagRe(val) ==
  LET rest  == IF val = <<>> THEN <<>> ELSE Tail(val)
      run   == PrefixLen(rest, NameChars)
      after == Drop(rest, run)
      two   == run >= 2 /\ rest[1] = "-"
      dash  == IF two THEN <<"-", "-">> ELSE <<"-">>
      name  == IF two THEN SubSeq(rest, 2, run) ELSE SubSeq(rest, 1, run)
      ok    == /\ HasDashPrefix(val)
               /\ run >= 1
               /\ \/ after = <<>>
                  \/ /\ after[1] = "="
                     /\ \A j \in 2..Len(after) : after[j] # "\n"
  IN  IF ~ok
        THEN [matched |-> FALSE]
        ELSE [matched           |-> TRUE,
              presentedFlag     |-> dash \o name,
              presentedDash     |-> dash,
              presentedFlagName |-> name,
              haveSelfValue     |-> after # <<>>,
              selfValue         |-> IF after = <<>> THEN <<>> ELSE Tail(after)]

(***************************************************************************)
(* Integers as text: fmt.Sprintf("%d", n) and fmt.Sscan(val, &num).        *)
(***************************************************************************)
DigitChar(d) ==
  CASE d = 0 -> "0" [] d = 1 -> "1" [] d = 2 -> "2" [] d = 3 -> "3" [] d = 4 -> "4"
    [] d = 5 -> "5" [] d = 6 -> "6" [] d = 7 -> "7" [] d = 8 -> "8" [] d = 9 -> "9"

DigitVal(c) ==
  CASE c = "0" -> 0 [] c = "1" -> 1 [] c = "2" -> 2 [] c = "3" -> 3 [] c = "4" -> 4
    [] c = "5" -> 5 [] c = "6" -> 6 [] c = "7" -> 7 [] c = "8" -> 8 [] c = "9" -> 9
    [] c \in {"a", "A"} -> 10 [] c \in {"b", "B"} -> 11 [] c \in {"c", "C"} -> 12
    [] c \in {"d", "D"} -> 13 [] c \in {"e", "E"} -> 14 [] c \in {"f", "F"} -> 15

RECURSIVE FormatNat(_)
FormatNat(n) ==
  IF n < 10 THEN <<DigitChar(n)>> ELSE FormatNat(n \div 10) \o <<DigitChar(n % 10)>>

\* fmt.Sprintf("%d", n)
Sprintf(n) == IF n < 0 THEN <<"-">> \o FormatNat(0 - n) ELSE FormatNat(n)

RECURSIVE DigitsValue(_, _)
\* the number written by the digits str in the given base; the separator "_"
\* adds nothing to it
DigitsValue(str, base) ==
  IF str = <<>> THEN 0
  ELSE IF str[Len(str)] = "_" THEN DigitsValue(SubSeq(str, 1, Len(str) - 1), base)
  ELSE DigitsValue(SubSeq(str, 1, Len(str) - 1), base) * base + DigitVal(str[Len(str)])

\* the characters scanNumber accepts for a base: its digits and the
\* separator "_"
DigitsOf(base) ==
  {c \in (DecimalDigits \cup {"a", "b", "c", "d", "e", "f", "A", "B", "C", "D", "E", "F"}) :
     DigitVal(c) < base} \cup {"_"}

\* the outcome of a scan: the count of items stored, and the number
Scanned0 == [n |-> 0, num |-> 0]

Scanned1(num) == [n |-> 1, num |-> num]

\* underscoreOK of strconv: every "_" of the token follows a digit, or the
\* base prefix, and is followed by a digit
UnderscoreOK(tok, prefixed) ==
  \A k \in 1..Len(tok) :
    tok[k] = "_" =>
      /\ IF k = 1 THEN prefixed ELSE tok[k - 1] # "_"
      /\ k < Len(tok)
      /\ tok[k + 1] # "_"

\* the range of ParseInt for 64 bits: a magnitude below 2^63, or 2^63 itself
\* under a minus sign (a magnitude of at most 30 bits is in the range
\* whatever the sign)
InRange(mag, neg) ==
  \/ mag <= 2^30
  \/ IF neg THEN mag <= 2^63 ELSE mag < 2^63

\* ParseInt on the token tok of base base
ParseInt(tok, base, prefixed, neg) ==
  IF ~UnderscoreOK(tok, prefixed) \/ ~InRange(DigitsValue(tok, base), neg) THEN Scanned0
  ELSE IF neg THEN Scanned1(0 - DigitsValue(tok, base))
  ELSE Scanned1(DigitsValue(tok, base))

\* scanNumber and ParseInt: the token is the longest run of characters of
\* the base; at least one is needed unless a leading zero has been read
\* already
ScanDigits(digs, base, need, neg) ==
  IF need /\ PrefixLen(digs, DigitsOf(base)) = 0 THEN Scanned0
  ELSE ParseInt(SubSeq(digs, 1, PrefixLen(digs, DigitsOf(base))), base,
                base # 10, neg)

\* scanBasePrefix: 0b, 0o and 0x announce a base, a plain leading 0 is octal
ScanBasePrefix(num, neg) ==
  IF num = <<>> \/ num[1] # "0" THEN ScanDigits(num, 10, TRUE, neg)
  ELSE IF Len(num) >= 2 /\ num[2] \in {"b", "B"} THEN ScanDigits(Drop(num, 2), 2, TRUE, neg)
  ELSE IF Len(num) >= 2 /\ num[2] \in {"o", "O"} THEN ScanDigits(Drop(num, 2), 8, TRUE, neg)
  ELSE IF Len(num) >= 2 /\ num[2] \in {"x", "X"} THEN ScanDigits(Drop(num, 2), 16, TRUE, neg)
  ELSE ScanDigits(Tail(num), 8, FALSE, neg)

\* scanInt: nothing to read is an error; a sign is accepted before the number
ScanInt(body) ==
  IF body = <<>> THEN Scanned0
  ELSE IF body[1] \in {"+", "-"} THEN ScanBasePrefix(Tail(body), body[1] = "-")
  ELSE ScanBasePrefix(body, FALSE)

\* fmt.Sscan(val, &num) for an int: white space is skipped, then a number is
\* read; what follows the number is left unread.
Sscan(val) == ScanInt(Drop(val, PrefixLen(val, SpaceChars)))

(***************************************************************************)
(* Options: the result of a parse, and its accessors.                      *)
(***************************************************************************)
\* a faulty Get: an unknown name yields "" instead of a panic
GetLenient(o, flag) == [panic |-> FALSE, val |-> Lookup(o.opts, flag)]

\* Options.Get: the stored value, "" for a declared option without a value,
\* a panic for a name that is neither stored nor known
Get(o, flag) ==
  IF flag \notin DOMAIN o.opts /\ ~LookupBool(o.known, flag)
    THEN [panic |-> TRUE, val |-> <<>>]
    ELSE [panic |-> FALSE, val |-> Lookup(o.opts, flag)]

\* Options.GetInt: "" is zero, otherwise the value must scan as an integer
GetInt(o, flag) ==
  LET g == Get(o, flag)
  IN  IF g.panic THEN [panic |-> TRUE, num |-> 0]
      ELSE IF g.val = <<>> THEN [panic |-> FALSE, num |-> 0]
      ELSE IF Sscan(g.val).n # 1 THEN [panic |-> TRUE, num |-> 0]
      ELSE [panic |-> FALSE, num |-> Sscan(g.val).num]

RECURSIVE GetAllFrom(_, _, _, _)
\* the loop of GetAll from the entry k on, out being the values found so far
GetAllFrom(flag, flags, k, out) ==
  IF k > Len(flags) THEN [panic |-> FALSE, val |-> out]
  ELSE IF flags[k][1] # flag THEN GetAllFrom(flag, flags, k + 1, out)
  ELSE IF Len(flags[k]) # 2 THEN [panic |-> TRUE, val |-> <<>>]
  ELSE GetAllFrom(flag, flags, k + 1, Append(out, flags[k][2]))

\* a faulty GetAll: an entry without value is passed over
GetAllLenient(flag, flags) ==
  [panic |-> FALSE,
   val   |-> [k \in 1..Len(SelectSeq(flags, LAMBDA e : e[1] = flag /\ Len(e) = 2)) |->
                SelectSeq(flags, LAMBDA e : e[1] = flag /\ Len(e) = 2)[k][2]]]

\* GetAll(flag, flags): the values of the entries of the log presented as flag
GetAll(flag, flags) == GetAllFrom(flag, flags, 1, <<>>)

(***************************************************************************)
(* NewOptions: the text of a specification is split in lines; the lines    *)
(* before the line "--" are the synopsis, each line after it declares an   *)
(* option.  A compilation is a record of the OptionSpec under construction *)
(* s, the stanza, the index n of the line to read (1-based), the control   *)
(* point pc and the message of a panic.  The field ok of an OptionSpec     *)
(* tells that NewOptions returned it.                                      *)
(***************************************************************************)
\* the class \s of the regular expressions
ReSpaceChars == {" ", "\t", "\n", "\f", "\r"}

\* the class [-\w,] of the names of an option line
SpecNameChars == NameChars \cup {","}

\* position of the first c in str, 0 when there is none
IndexOf(str, c) ==
  IF \E k \in 1..Len(str) : str[k] = c
    THEN CHOOSE k \in 1..Len(str) : str[k] = c /\ \A j \in 1..(k - 1) : str[j] # c
    ELSE 0

RECURSIVE Split(_, _)
\* strings.Split(str, sep), for a separator sep of one character
Split(str, sep) ==
  IF IndexOf(str, sep) = 0 THEN <<str>>
  ELSE <<SubSeq(str, 1, IndexOf(str, sep) - 1)>> \o Split(Drop(str, IndexOf(str, sep)), sep)

RECURSIVE Join(_, _)
\* strings.Join(strs, sep)
Join(strs, sep) ==
  IF strs = <<>> THEN <<>>
  ELSE IF Len(strs) = 1 THEN strs[1]
  ELSE strs[1] \o sep \o Join(Tail(strs), sep)

\* flagSpec on a line that starts with p name characters and e characters "=":
\* white space must follow, and the rest, without newline, is the description
FlagSpecAt(l, p, e) ==
  LET w == PrefixLen(Drop(l, p + e), ReSpaceChars)
  IN  IF p = 0 \/ w = 0 \/ IndexOf(Drop(l, p + e + w), "\n") # 0
        THEN [matched |-> FALSE]
        ELSE [matched |-> TRUE,
              names   |-> SubSeq(l, 1, p),
              eq      |-> SubSeq(l, p + 1, p + e),
              desc    |-> Drop(l, p + e + w)]

\* flagSpec.FindStringSubmatch(l): the name group is the longest run of name
\* characters and commas, the "=" group is taken when a "=" follows it
FlagSpec(l) ==
  LET p == PrefixLen(l, SpecNameChars)
  IN  FlagSpecAt(l, p, IF p < Len(l) /\ l[p + 1] = "=" THEN 1 ELSE 0)

\* defaultValue.FindStringSubmatch(desc): from the first "[" to a "]" that
\* ends the description; Nil when there is no match
DefaultValue(desc) ==
  IF desc # <<>> /\ desc[Len(desc)] = "]" /\ IndexOf(desc, "[") # 0
                /\ IndexOf(desc, "\n") = 0
    THEN Ptr(SubSeq(desc, IndexOf(desc, "[") + 1, Len(desc) - 1))
    ELSE Nil

prettyFlag(flg) == IF Len(flg) = 1 THEN <<"-">> \o flg ELSE <<"-", "-">> \o flg

smap(f, vs) == [k \in DOMAIN vs |-> f[vs[k]]]

\* s := &OptionSpec{...} with empty maps
NewSpec ==
  [ok                  |-> TRUE,
   Usage               |-> <<>>,
   aliases             |-> <<>>,
   defaults            |-> <<>>,
   requiresArg         |-> <<>>,
   UnknownOptionsFatal |-> TRUE,
   UnknownValuesFatal  |-> FALSE,
   ParseCallback       |-> "nil",
   Exit                |-> "os.Exit",
   ErrorWriter         |-> "nil"]

\* NewOptions before the first line
NewCompile == [s |-> NewSpec, stanza |-> 0, n |-> 1, pc |-> "compiling", panicMsg |-> Nil]

\* panic(msg) in NewOptions: no OptionSpec is returned
CompilePanic(cf, msg) ==
  [cf EXCEPT !.pc = "panicked", !.panicMsg = Ptr(msg), !.s.ok = FALSE]

RECURSIVE RegisterNamesOverwriting(_, _, _, _)
\* a faulty loop over the names: a name already registered is mapped anew
RegisterNamesOverwriting(cf, names, canonical, k) ==
  IF k > Len(names) \/ cf.pc # "compiling" THEN cf
  ELSE IF names[k] \in {<<>>, <<"-">>, <<"-", "-">>}
    THEN CompilePanic(cf, Msg("bad name", names[k]))
  ELSE RegisterNamesOverwriting([cf EXCEPT !.s.aliases = (names[k] :> canonical) @@ @],
                                names, canonical, k + 1)

RECURSIVE RegisterNames(_, _, _, _)
\* the loop over the names of one line, from the k-th name on
RegisterNames(cf, names, canonical, k) ==
  IF k > Len(names) \/ cf.pc # "compiling" THEN cf
  ELSE IF names[k] \in DOMAIN cf.s.aliases
    THEN CompilePanic(cf, Msg("duplicate name", names[k]))
  ELSE IF names[k] \in {<<>>, <<"-">>, <<"-", "-">>}
    THEN CompilePanic(cf, Msg("bad name", names[k]))
  ELSE RegisterNames([cf EXCEPT !.s.aliases = (names[k] :> canonical) @@ @],
                     names, canonical, k + 1)

\* stanza 0, the line "--": the option lines begin
StepSeparator(cf, l) ==
  [cf EXCEPT !.s.Usage = @ \o <<"\n">>, !.stanza = 1, !.n = @ + 1]

\* stanza 0, any other line: a line of the synopsis
StepSynopsis(cf, l) == [cf EXCEPT !.s.Usage = @ \o l \o <<"\n">>, !.n = @ + 1]

\* stanza 1, the empty line
StepBlank(cf, l) == [cf EXCEPT !.s.Usage = @ \o <<"\n">>, !.n = @ + 1]

\* stanza 1, a line flagSpec does not match
StepNoParse(cf, l) == CompilePanic(cf, Msg("no parse", l))

\* the usage line of an option
UsageLine(names, parts) ==
  <<" ", " ">> \o Join(smap([x \in {names[k] : k \in DOMAIN names} |-> prettyFlag(x)], names),
                    <<",", " ">>) \o parts.eq
    \o <<" ", " ">> \o parts.desc \o <<"\n">>

\* a faulty option line: the first name is taken as the canonical one
StepOptionLineFirstCanonical(cf, l) ==
  LET parts     == FlagSpec(l)
      names     == Split(parts.names, ",")
      canonical == names[1]
      c1        == RegisterNames(cf, names, canonical, 1)
      def       == DefaultValue(parts.desc)
  IN  IF c1.pc # "compiling" THEN c1
      ELSE [c1 EXCEPT
              !.s.requiresArg = IF parts.eq = <<"=">> THEN (canonical :> TRUE) @@ @ ELSE @,
              !.s.defaults    = IF def # Nil THEN (canonical :> Deref(def)) @@ @ ELSE @,
              !.s.Usage       = @ \o UsageLine(names, parts),
              !.n             = @ + 1]

\* stanza 1, a line flagSpec matches: an option and its aliases
StepOptionLine(cf, l) ==
  LET parts     == FlagSpec(l)
      names     == Split(parts.names, ",")
      canonical == names[Len(names)]
      c1        == RegisterNames(cf, names, canonical, 1)
      def       == DefaultValue(parts.desc)
  IN  IF c1.pc # "compiling" THEN c1
      ELSE [c1 EXCEPT
              !.s.requiresArg = IF parts.eq = <<"=">> THEN (canonical :> TRUE) @@ @ ELSE @,
              !.s.defaults    = IF def # Nil THEN (canonical :> Deref(def)) @@ @ ELSE @,
              !.s.Usage       = @ \o UsageLine(names, parts),
              !.n             = @ + 1]

\* the branch of the loop body taken for line l
LineKind(cf, l) ==
  IF cf.stanza = 0 THEN (IF l = <<"-", "-">> THEN "separator" ELSE "synopsis")
  ELSE IF l = <<>> THEN "blank"
  ELSE IF ~FlagSpec(l).matched THEN "noparse"
  ELSE "option"

\* one iteration of the loop over the lines
CompileStep(cf, l) ==
  CASE LineKind(cf, l) = "separator" -> StepSeparator(cf, l)
    [] LineKind(cf, l) = "synopsis"  -> StepSynopsis(cf, l)
    [] LineKind(cf, l) = "blank"     -> StepBlank(cf, l)
    [] LineKind(cf, l) = "noparse"   -> StepNoParse(cf, l)
    [] OTHER                         -> StepOptionLine(cf, l)

\* the loop over the lines goes on
Compiling(lines, cf) == cf.pc = "compiling" /\ cf.n <= Len(lines)

RECURSIVE CompileFrom(_, _)
\* the compilation run to its end from cf
CompileFrom(lines, cf) ==
  IF Compiling(lines, cf) THEN CompileFrom(lines, CompileStep(cf, lines[cf.n]))
  ELSE IF cf.pc = "compiling" THEN [cf EXCEPT !.pc = "compiled"]
  ELSE cf

\* NewOptions(spec): the OptionSpec, with ok false when NewOptions panicked
NewOptions(spec) == CompileFrom(Split(spec, "\n"), NewCompile).s

\* the chained setters of an OptionSpec
SetUnknownOptionsFatal(spec, val) == [spec EXCEPT !.UnknownOptionsFatal = val]

SetUnknownValuesFatal(spec, val) == [spec EXCEPT !.UnknownValuesFatal = val]

SetParseCallback(spec, callback) == [spec EXCEPT !.ParseCallback = callback]

\* exit status for incorrect command lines
EX_USAGE == 64

(***************************************************************************)
(* One call of Parse.  A frame holds what the call and its callback can    *)
(* change: the loop index i (1-based), the Options under construction,     *)
(* the control point pc, and what the call did to its collaborators: the   *)
(* statuses passed to Exit, the messages printed with the usage, the       *)
(* message of a panic, the invocations of a user callback, and the indices *)
(* the loop has read a token at.                                           *)
(***************************************************************************)
\* a faulty NewFrame: the values are not seeded from the defaults
NewFrameUnseeded(spec) ==
  [i        |-> 1,
   opt      |-> [opts     |-> <<>>,
                 known    |-> [c \in {spec.aliases[n] : n \in DOMAIN spec.aliases} |-> TRUE],
                 Flags    |-> <<>>,
                 Extra    |-> <<>>,
                 Leftover |-> <<>>],
   pc       |-> "loop",
   exitLog  |-> <<>>,
   errLog   |-> <<>>,
   written  |-> <<>>,
   panicMsg |-> Nil,
   cbLog    |-> <<>>,
   scanned  |-> <<>>]

\* the frame at the head of the loop: lines 325 to 338 of Parse
NewFrame(spec) ==
  [i        |-> 1,
   opt      |-> [opts     |-> spec.defaults,
                 known    |-> [c \in {spec.aliases[n] : n \in DOMAIN spec.aliases} |-> TRUE],
                 Flags    |-> <<>>,
                 Extra    |-> <<>>,
                 Leftover |-> <<>>],
   pc       |-> "loop",
   exitLog  |-> <<>>,
   errLog   |-> <<>>,
   written  |-> <<>>,
   panicMsg |-> Nil,
   cbLog    |-> <<>>,
   scanned  |-> <<>>]

\* the call is still executing statements of Parse
Live(fr) == fr.pc = "loop"

\* panic(msg): the call is abandoned
Panic(fr, msg) == [fr EXCEPT !.pc = "panicked", !.panicMsg = Ptr(msg)]

\* s.Exit(code): os.Exit ends the process, exitToPanic of the tests panics,
\* and a function such as func(code int) {} returns to its caller
CallExit(spec, fr, code) ==
  IF spec.Exit = "os.Exit"
    THEN [fr EXCEPT !.exitLog = Append(@, code), !.pc = "exited"]
  ELSE IF spec.Exit = "exitToPanic"
    THEN Panic([fr EXCEPT !.exitLog = Append(@, code)],
               Msg("exiting with code", Sprintf(code)))
  ELSE [fr EXCEPT !.exitLog = Append(@, code)]

\* the empty error string
NoErr == Msg("", <<>>)

\* the closure printMsg of PrintUsageAndExit: the arguments vs are written
\* with the format to the writer f, or to s.ErrorWriter when there is one
printMsg(spec, fr, f, format, vs) ==
  [fr EXCEPT !.written =
     Append(@, [sink   |-> IF spec.ErrorWriter # "nil" THEN "ErrorWriter" ELSE f,
                format |-> format,
                vs     |-> vs])]

\* OptionSpec.PrintUsageAndExit(err)
PrintUsageAndExit(spec, fr, err) ==
  LET f0 == IF err = NoErr
              THEN CallExit(spec, printMsg(spec, fr, "os.Stdout", "%s\n", <<spec.Usage>>), 0)
              ELSE fr
  IN  IF ~Live(f0) THEN f0
      ELSE CallExit(spec,
                    printMsg(spec, [f0 EXCEPT !.errLog = Append(@, err)],
                             "os.Stderr", "%s\n%s\n", <<err, spec.Usage>>),
                    EX_USAGE)

\* opt.opts[canonical] = val
SetOpt(fr, canonical, val) == [fr EXCEPT !.opt.opts = (canonical :> val) @@ @]

\* the value of an int of 64 bits after an operation whose mathematical
\* result is v: it wraps around at 2^63 (a result of at most 30 bits is
\* itself)
Int64(v) ==
  IF -(2^30) <= v /\ v <= 2^30 THEN v
  ELSE ((v + 2^63) % 2^64) - 2^63

\* opt.opts[canonical] = fmt.Sprintf("%d", opt.GetInt(canonical)+1)
CountOpt(fr, canonical) ==
  LET g == GetInt(fr.opt, canonical)
  IN  IF g.panic THEN Panic(fr, Msg("Bad integer value for option", canonical))
      ELSE SetOpt(fr, canonical, Sprintf(Int64(g.num + 1)))

\* a faulty closure unknown: UnknownOptionsFatal is ignored
UnknownNeverFatal(spec, fr, k, option) == [fr |-> fr, r |-> ~k]

\* the closure unknown of the standard callback
Unknown(spec, fr, k, option) ==
  IF ~k /\ spec.UnknownOptionsFatal
    THEN [fr |-> PrintUsageAndExit(spec, fr, Msg("Unkown option", option)), r |-> TRUE]
    ELSE [fr |-> fr, r |-> ~k]

\* the result of a part of the callback: the frame, and whether the callback
\* has returned early
Part(fr, early) == [fr |-> fr, early |-> early]

RECURSIVE Cluster(_, _, _, _, _)
\* the clustering loop of the standard callback, from character j on
Cluster(spec, fr, name, value, j) ==
  IF j > Len(name) THEN Part(fr, FALSE)
  ELSE
    LET short      == <<name[j]>>
        isLast     == j = Len(name)
        knownC     == short \in DOMAIN spec.aliases
        canonicalC == Lookup(spec.aliases, short)
        u          == Unknown(spec, fr, knownC, name)
        counted    == CountOpt(u.fr, canonicalC)
    IN  IF ~Live(u.fr) THEN Part(u.fr, TRUE)
        ELSE IF u.r THEN Cluster(spec, u.fr, name, value, j + 1)
        ELSE IF LookupBool(spec.requiresArg, canonicalC)
          THEN IF value = Nil \/ ~isLast
                 THEN Part(PrintUsageAndExit(spec, u.fr, Msg("Missing argument", short)),
                           TRUE)
                 ELSE Cluster(spec, SetOpt(u.fr, canonicalC, Deref(value)), name, value, j + 1)
          ELSE IF value # Nil /\ isLast
                 THEN Part(PrintUsageAndExit(spec, u.fr,
                                             Msg("Unexpected argument", short)), TRUE)
                 ELSE IF ~Live(counted) THEN Part(counted, TRUE)
                      ELSE Cluster(spec, counted, name, value, j + 1)

\* the branch of the standard callback for a flag that is not a cluster
Single(spec, fr, m, value) ==
  LET option    == m.presentedFlagName
      known     == option \in DOMAIN spec.aliases
      canonical == Lookup(spec.aliases, option)
      u         == Unknown(spec, fr, known, option)
      counted   == CountOpt(u.fr, canonical)
  IN  IF ~Live(u.fr) THEN Part(u.fr, TRUE)
      ELSE IF u.r THEN Part(u.fr, FALSE)
      ELSE IF LookupBool(spec.requiresArg, canonical)
        THEN IF value = Nil
               THEN Part(PrintUsageAndExit(spec, u.fr, Msg("Missing argument", option)),
                         TRUE)
               ELSE Part(SetOpt(u.fr, canonical, Deref(value)), FALSE)
        ELSE IF value # Nil
               THEN Part(Panic(u.fr, Msg("Unexpected argument", option)), TRUE)
               ELSE Part(counted, ~Live(counted))

\* a faulty FlagsEntry: the name is logged without its dashes
FlagsEntryWithoutDashes(m, value) ==
  IF value # Nil THEN <<m.presentedFlagName, Deref(value)>> ELSE <<m.presentedFlagName>>

\* the Flags entry of one occurrence
FlagsEntry(m, value) ==
  IF value # Nil THEN <<m.presentedFlag, Deref(value)>> ELSE <<m.presentedFlag>>

\* the end of the standard callback: the occurrence is appended to Flags
\* unless the callback has returned early
AppendFlag(p, m, value) ==
  IF p.early \/ ~Live(p.fr) THEN p.fr
  ELSE [p.fr EXCEPT !.opt.Flags = Append(@, FlagsEntry(m, value))]

\* the standard parse callback
StdCallback(spec, fr, m, value) ==
  AppendFlag(IF m.presentedDash = <<"-">> /\ Len(m.presentedFlagName) > 1
               THEN Cluster(spec, fr, m.presentedFlagName, value, 1)
               ELSE Single(spec, fr, m, value),
             m, value)

\* a user callback that records its invocations and returns
UserCallback(spec, fr, m, value) ==
  [fr EXCEPT !.cbLog = Append(@, <<m.presentedFlagName, value>>)]

\* the name of the usage request
Help == <<"h", "e", "l", "p">>

\* the canonical names the callback of the example program accepts with an
\* argument: input-encoding, output-encoding, repeat, cookie-chance
ArgumentCases ==
  { <<"i", "n", "p", "u", "t", "-", "e", "n", "c", "o", "d", "i", "n", "g">>,
    <<"o", "u", "t", "p", "u", "t", "-", "e", "n", "c", "o", "d", "i", "n", "g">>,
    <<"r", "e", "p", "e", "a", "t">>,
    <<"c", "o", "o", "k", "i", "e", "-", "c", "h", "a", "n", "c", "e">> }

\* the canonical names it accepts without an argument: number, escape,
\* verbose
NoArgumentCases ==
  { <<"n", "u", "m", "b", "e", "r">>,
    <<"e", "s", "c", "a", "p", "e">>,
    <<"v", "e", "r", "b", "o", "s", "e">> }

\* the callback of the example program: a switch on the canonical name of
\* the option, one for an invocation with an argument and one for an
\* invocation without; every other invocation goes to PrintUsageAndExit,
\* with no error for the option help given without an argument
MyParseCallback(spec, fr, m, value) ==
  IF value # Nil
    THEN IF Lookup(spec.aliases, m.presentedFlagName) \in ArgumentCases
           THEN UserCallback(spec, fr, m, value)
           ELSE PrintUsageAndExit(spec, UserCallback(spec, fr, m, value),
                                  Msg("Unknown option", m.presentedFlagName))
  ELSE IF Lookup(spec.aliases, m.presentedFlagName) \in NoArgumentCases
    THEN UserCallback(spec, fr, m, value)
  ELSE IF m.presentedFlagName = Help
    THEN PrintUsageAndExit(spec, UserCallback(spec, fr, m, value), NoErr)
  ELSE PrintUsageAndExit(spec, UserCallback(spec, fr, m, value),
                         Msg("Unknown option", m.presentedFlagName))

\* a faulty dispatch: the standard callback runs before the installed one
CallbackAfterStandard(spec, fr, m, value) ==
  IF spec.ParseCallback = "nil" THEN StdCallback(spec, fr, m, value)
  ELSE UserCallback(spec, StdCallback(spec, fr, m, value), m, value)

\* a faulty dispatch: an installed callback is ignored
CallbackAlwaysStandard(spec, fr, m, value) == StdCallback(spec, fr, m, value)

\* callback(s, presentedFlagName, value)
Callback(spec, fr, m, value) ==
  IF spec.ParseCallback = "nil" THEN StdCallback(spec, fr, m, value)
  ELSE IF spec.ParseCallback = "MyParseCallback"
    THEN MyParseCallback(spec, fr, m, value)
  ELSE UserCallback(spec, fr, m, value)

(***************************************************************************)
(* The body of the loop of Parse, one operator per kind of iteration.      *)
(***************************************************************************)
\* a faulty terminator step: the terminator itself is left over too
StepTerminatorKept(spec, args, fr) ==
  [fr EXCEPT !.opt.Leftover = @ \o Drop(args, fr.i - 1),
             !.scanned = Append(@, fr.i),
             !.pc = "break"]

\* val == "--": the rest of the arguments is left over and the loop ends
StepTerminator(spec, args, fr) ==
  [fr EXCEPT !.opt.Leftover = @ \o Drop(args, fr.i),
             !.scanned = Append(@, fr.i),
             !.pc = "break"]

\* a faulty positional step: UnknownValuesFatal is ignored
StepPositionalNeverFatal(spec, args, fr) ==
  [fr EXCEPT !.scanned = Append(@, fr.i),
             !.opt.Extra = Append(@, args[fr.i]),
             !.i = @ + 1]

\* flagParts == nil: the token is not a flag
StepPositional(spec, args, fr) ==
  LET val == args[fr.i]
      f1  == [fr EXCEPT !.scanned = Append(@, fr.i)]
  IN  IF spec.UnknownValuesFatal
        THEN Panic(f1, Msg("Unexpected argument", val))
        ELSE [f1 EXCEPT !.opt.Extra = Append(@, val), !.i = @ + 1]

\* a faulty NeedsArg: the last character of a cluster is not looked up
NeedsArgWithoutLastClustered(spec, args, i, m) ==
  LET name            == m.presentedFlagName
      known           == name \in DOMAIN spec.aliases
      canonical       == Lookup(spec.aliases, name)
      maybeClustering == ~known /\ m.presentedDash = <<"-">>
  IN  \/ known /\ LookupBool(spec.requiresArg, canonical)
      \/ ~known /\ i < Len(args) /\ ~HasDashPrefix(args[i + 1])
      \/ maybeClustering /\ m.haveSelfValue

\* a faulty NeedsArg: an unknown flag takes whatever token follows it
NeedsArgAnyNextToken(spec, args, i, m) ==
  LET name            == m.presentedFlagName
      known           == name \in DOMAIN spec.aliases
      canonical       == Lookup(spec.aliases, name)
      maybeClustering == ~known /\ m.presentedDash = <<"-">>
      lastClustered   == Lookup(spec.aliases, <<name[Len(name)]>>)
  IN  \/ known /\ LookupBool(spec.requiresArg, canonical)
      \/ ~known /\ i < Len(args)
      \/ maybeClustering /\ m.haveSelfValue
      \/ maybeClustering /\ LookupBool(spec.requiresArg, lastClustered)

\* whether the callback is to be given an argument
NeedsArg(spec, args, i, m) ==
  LET name            == m.presentedFlagName
      known           == name \in DOMAIN spec.aliases
      canonical       == Lookup(spec.aliases, name)
      maybeClustering == ~known /\ m.presentedDash = <<"-">>
      lastClustered   == Lookup(spec.aliases, <<name[Len(name)]>>)
  IN  \/ known /\ LookupBool(spec.requiresArg, canonical)
      \/ ~known /\ i < Len(args) /\ ~HasDashPrefix(args[i + 1])
      \/ maybeClustering /\ m.haveSelfValue
      \/ maybeClustering /\ LookupBool(spec.requiresArg, lastClustered)

\* the token is a flag: decide on its argument and invoke the callback
StepOption(spec, args, fr) ==
  LET m        == FlagRe(args[fr.i])
      nextArg  == IF fr.i < Len(args) THEN Ptr(args[fr.i + 1]) ELSE Nil
      needsArg == NeedsArg(spec, args, fr.i, m)
      takeNext == needsArg /\ ~m.haveSelfValue
      value    == IF ~needsArg THEN Nil
                  ELSE IF m.haveSelfValue THEN Ptr(m.selfValue)
                  ELSE nextArg
      f1       == [fr EXCEPT !.scanned = Append(@, fr.i),
                             !.i = IF takeNext THEN @ + 1 ELSE @]
      f2       == Callback(spec, f1, m, value)
  IN  IF Live(f2) THEN [f2 EXCEPT !.i = @ + 1] ELSE f2

\* the kind of the iteration at the head of the loop
TokenKind(val) ==
  IF val = <<"-", "-">> THEN "terminator"
  ELSE IF ~FlagRe(val).matched THEN "positional"
  ELSE "option"

StepKind(args, fr) == TokenKind(args[fr.i])

\* one iteration of the loop
Step(spec, args, fr) ==
  CASE StepKind(args, fr) = "terminator" -> StepTerminator(spec, args, fr)
    [] StepKind(args, fr) = "positional" -> StepPositional(spec, args, fr)
    [] OTHER -> StepOption(spec, args, fr)

\* the loop goes on
InLoop(args, fr) == Live(fr) /\ fr.i <= Len(args)

\* the loop is over and Parse returns opt
AtReturn(args, fr) == fr.pc = "break" \/ (Live(fr) /\ fr.i > Len(args))

RECURSIVE RunFrom(_, _, _)
\* the call run to its end from frame fr
RunFrom(spec, args, fr) ==
  IF InLoop(args, fr) THEN RunFrom(spec, args, Step(spec, args, fr))
  ELSE IF AtReturn(args, fr) THEN [fr EXCEPT !.pc = "returned"]
  ELSE fr

\* OptionSpec.Parse(args), run to its end
Parse(spec, args) == RunFrom(spec, args, NewFrame(spec))

(***************************************************************************)
(* The inputs of the model: option specifications and argument tokens.     *)
(***************************************************************************)
\* --
\* a,aa x           a counting option
\* b,cc= [d]        an option with an argument and the default d
LinesA == <<"-", "-", "\n", "a", ",", "a", "a", " ", "x", "\n",
            "b", ",", "c", "c", "=", " ", "[", "d", "]">>

\* --
\* a [2]            a counting option with the default 2
\* b,cc= x          an option with an argument
LinesB == <<"-", "-", "\n", "a", " ", "[", "2", "]", "\n",
            "b", ",", "c", "c", "=", " ", "x">>

SpecLines == {LinesA, LinesB}

\* the specification text of the example program:
\*   cat - concatenate files to standard input
\*   Usage: cat [OPTIONS] file...
\*   This version of cat supports character set conversion.
\*   Fancifully, you can say "-r 3" and have everything told you three times.
\*   --
\*   n,numerate,number     number input lines
\*   e,escape              escape nonprintable characters
\*   i,input-encoding=     charset input is encoded in [utf-8]
\*   o,output-encoding=    charset output is encoded in [utf-8]
\*   r,repeat=             repeat every line some number of times [1]
\*   v,verbose             be verbose
\*   c,cookie-chance=      chance to get a fortune cookie [0.1]
\* the text begins with a line break and ends with one
mySpec ==
  <<"\n">> \o
  <<"c", "a", "t", " ", "-", " ", "c", "o", "n", "c", "a", "t", "e", "n", "a", "t", "e", " ",
    "f", "i", "l", "e", "s", " ", "t", "o", " ", "s", "t", "a", "n", "d", "a", "r", "d", " ",
    "i", "n", "p", "u", "t", "\n">> \o
  <<"U", "s", "a", "g", "e", ":", " ", "c", "a", "t", " ", "[", "O", "P", "T", "I", "O", "N",
    "S", "]", " ", "f", "i", "l", "e", ".", ".", ".", "\n">> \o
  <<"T", "h", "i", "s", " ", "v", "e", "r", "s", "i", "o", "n", " ", "o", "f", " ", "c", "a",
    "t", " ", "s", "u", "p", "p", "o", "r", "t", "s", " ", "c", "h", "a", "r", "a", "c", "t",
    "e", "r", " ", "s", "e", "t", " ", "c", "o", "n", "v", "e", "r", "s", "i", "o", "n", ".",
    "\n">> \o
  <<"F", "a", "n", "c", "i", "f", "u", "l", "l", "y", ",", " ", "y", "o", "u", " ", "c", "a",
    "n", " ", "s", "a", "y", " ", "\"", "-", "r", " ", "3", "\"", " ", "a", "n", "d", " ", "h",
    "a", "v", "e", " ", "e", "v", "e", "r", "y", "t", "h", "i", "n", "g", " ", "t", "o", "l",
    "d", " ", "y", "o", "u", " ", "t", "h", "r", "e", "e", " ", "t", "i", "m", "e", "s", ".",
    "\n">> \o
  <<"-", "-", "\n">> \o
  <<"n", ",", "n", "u", "m", "e", "r", "a", "t", "e", ",", "n", "u", "m", "b", "e", "r", " ",
    " ", " ", " ", " ", "n", "u", "m", "b", "e", "r", " ", "i", "n", "p", "u", "t", " ", "l",
    "i", "n", "e", "s", "\n">> \o
  <<"e", ",", "e", "s", "c", "a", "p", "e", " ", " ", " ", " ", " ", " ", " ", " ", " ", " ",
    " ", " ", " ", " ", "e", "s", "c", "a", "p", "e", " ", "n", "o", "n", "p", "r", "i", "n",
    "t", "a", "b", "l", "e", " ", "c", "h", "a", "r", "a", "c", "t", "e", "r", "s", "\n">> \o
  <<"i", ",", "i", "n", "p", "u", "t", "-", "e", "n", "c", "o", "d", "i", "n", "g", "=", " ",
    " ", " ", " ", " ", "c", "h", "a", "r", "s", "e", "t", " ", "i", "n", "p", "u", "t", " ",
    "i", "s", " ", "e", "n", "c", "o", "d", "e", "d", " ", "i", "n", " ", "[", "u", "t", "f",
    "-", "8", "]", "\n">> \o
  <<"o", ",", "o", "u", "t", "p", "u", "t", "-", "e", "n", "c", "o", "d", "i", "n", "g", "=",
    " ", " ", " ", " ", "c", "h", "a", "r", "s", "e", "t", " ", "o", "u", "t", "p", "u", "t",
    " ", "i", "s", " ", "e", "n", "c", "o", "d", "e", "d", " ", "i", "n", " ", "[", "u", "t",
    "f", "-", "8", "]", "\n">> \o
  <<"r", ",", "r", "e", "p", "e", "a", "t", "=", " ", " ", " ", " ", " ", " ", " ", " ", " ",
    " ", " ", " ", " ", "r", "e", "p", "e", "a", "t", " ", "e", "v", "e", "r", "y", " ", "l",
    "i", "n", "e", " ", "s", "o", "m", "e", " ", "n", "u", "m", "b", "e", "r", " ", "o", "f",
    " ", "t", "i", "m", "e", "s", " ", "[", "1", "]", "\n">> \o
  <<"v", ",", "v", "e", "r", "b", "o", "s", "e", " ", " ", " ", " ", " ", " ", " ", " ", " ",
    " ", " ", " ", " ", "b", "e", " ", "v", "e", "r", "b", "o", "s", "e", "\n">> \o
  <<"c", ",", "c", "o", "o", "k", "i", "e", "-", "c", "h", "a", "n", "c", "e", "=", " ", " ",
    " ", " ", " ", " ", "c", "h", "a", "n", "c", "e", " ", "t", "o", " ", "g", "e", "t", " ",
    "a", " ", "f", "o", "r", "t", "u", "n", "e", " ", "c", "o", "o", "k", "i", "e", " ", "[",
    "0", ".", "1", "]", "\n">>

\* the callbacks a program may install: none, or one that records its calls
Callbacks == {"nil", "record"}

\* the ways a program configures the OptionSpec it got from NewOptions
Configured(spec) ==
  {SetParseCallback(SetUnknownValuesFatal(SetUnknownOptionsFatal(spec, uo), uv), cb) :
     uo \in BOOLEAN, uv \in BOOLEAN, cb \in Callbacks}

\* the specifications Parse is called on: compiled, then configured
OptionSpecs == UNION {Configured(NewOptions(l)) : l \in SpecLines}

\* the tokens of the command lines
Tokens ==
  { <<"v">>,                                   \* v
    <<"a", "=", "v">>,                         \* a=v
    <<"\n">>,                                  \* a newline
    <<"-", "-">>,                              \* --
    <<"-", "a">>,                              \* -a
    <<"-", "b">>,                              \* -b
    <<"-", "-", "c", "c", "=", "v">>,          \* --cc=v
    <<"-", "a", "a">>,                         \* -aa
    <<"-", "c", "c">>,                         \* -cc
    <<"-", "a", "b">>,                         \* -ab
    <<"-", "b", "a">>,                         \* -ba
    <<"-", "u", "b">>,                         \* -ub
    <<"-", "a", "b", "=", "v">>,               \* -ab=v
    <<"-", "-", "a", "a", "=", "v">>,          \* --aa=v
    <<"-", "-", "u">>,                         \* --u
    <<"-", "u", "u">>,                         \* -uu
    <<"-", "-", "u", "=", "v">> }              \* --u=v

\* the argument lists of at most n tokens
ArgLists(n) == UNION {[1..k -> Tokens] : k \in 0..n}

(***************************************************************************)
(* The state machine: one call of Parse on a configured OptionSpec.        *)
(***************************************************************************)
VARIABLES src, n, stanza, s, args, i, opt, pc, exitLog, errLog, written, panicMsg, cbLog, scanned, got

vars == <<src, n, stanza, s, args, i, opt, pc, exitLog, errLog, written, panicMsg, cbLog, scanned, got>>

\* the lines of the specification text
Lines == Split(src, "\n")

\* NewOptions has returned s for the text src and the program has configured it
Constructed ==
  /\ src \in SpecLines
  /\ n = Len(Lines) + 1
  /\ stanza = 1
  /\ s \in {spec \in Configured(NewOptions(src)) : spec.ok}

\* the frame of the call in the current state
Frame ==
  [i |-> i, opt |-> opt, pc |-> pc, exitLog |-> exitLog, errLog |-> errLog,
   written |-> written,
   panicMsg |-> panicMsg, cbLog |-> cbLog, scanned |-> scanned]

\* the call moves to frame fr
Becomes(fr) ==
  /\ i' = fr.i
  /\ opt' = fr.opt
  /\ pc' = fr.pc
  /\ exitLog' = fr.exitLog
  /\ errLog' = fr.errLog
  /\ written' = fr.written
  /\ panicMsg' = fr.panicMsg
  /\ cbLog' = fr.cbLog
  /\ scanned' = fr.scanned

\* Parse is entered: the Options are seeded and the loop is at its head
Init ==
  /\ Constructed
  /\ args \in ArgLists(MaxArgs)
  /\ i = NewFrame(s).i
  /\ opt = NewFrame(s).opt
  /\ pc = NewFrame(s).pc
  /\ exitLog = NewFrame(s).exitLog
  /\ errLog = NewFrame(s).errLog
  /\ written = NewFrame(s).written
  /\ panicMsg = NewFrame(s).panicMsg
  /\ cbLog = NewFrame(s).cbLog
  /\ scanned = NewFrame(s).scanned
  /\ got = Nil

\* an iteration that reads the terminator "--"
ParseTerminator ==
  /\ InLoop(args, Frame)
  /\ StepKind(args, Frame) = "terminator"
  /\ Becomes(StepTerminator(s, args, Frame))
  /\ UNCHANGED <<src, n, stanza, s, args, got>>

\* an iteration that reads a token that is not a flag
ParsePositional ==
  /\ InLoop(args, Frame)
  /\ StepKind(args, Frame) = "positional"
  /\ Becomes(StepPositional(s, args, Frame))
  /\ UNCHANGED <<src, n, stanza, s, args, got>>

\* an iteration that reads a flag
ParseOption ==
  /\ InLoop(args, Frame)
  /\ StepKind(args, Frame) = "option"
  /\ Becomes(StepOption(s, args, Frame))
  /\ UNCHANGED <<src, n, stanza, s, args, got>>

\* the loop has ended: Parse returns opt
ParseReturn ==
  /\ AtReturn(args, Frame)
  /\ pc' = "returned"
  /\ UNCHANGED <<src, n, stanza, s, args, i, opt, exitLog, errLog, written, panicMsg, cbLog, scanned, got>>

Next == ParseTerminator \/ ParsePositional \/ ParseOption \/ ParseReturn

Spec == Init /\ [][Next]_vars

(***************************************************************************)
(* The same call on an OptionSpec whose Exit field and callback have been  *)
(* replaced: Exit by the panicking function of the tests or by a function  *)
(* that returns, the callback by the one of the example program.           *)
(***************************************************************************)
\* the largest number of tokens of these command lines
MaxExitArgs == 3

\* the functions a program may put in the Exit field
ExitFunctions == {"os.Exit", "exitToPanic", "returns"}

\* the callbacks a program may install, the example's included
ExitCallbacks == Callbacks \cup {"MyParseCallback"}

SetExit(spec, exit) == [spec EXCEPT !.Exit = exit]

\* the ways a program configures the OptionSpec, the Exit field included
ConfiguredExit(spec) ==
  {SetExit(SetParseCallback(SetUnknownValuesFatal(SetUnknownOptionsFatal(spec, uo), uv), cb),
           exit) :
     uo \in BOOLEAN, uv \in BOOLEAN, cb \in ExitCallbacks, exit \in ExitFunctions}

\* the tokens of the command lines over LinesA and LinesB
ExitTokens ==
  { <<"v">>,                                   \* v
    <<"-", "-">>,                              \* --
    <<"-", "a">>,                              \* -a
    <<"-", "b">>,                              \* -b
    <<"-", "u", "a">>,                         \* -ua
    <<"-", "-", "u">>,                         \* --u
    <<"-", "-", "c", "c", "=", "v">>,          \* --cc=v
    <<"-", "-">> \o Help }                     \* --help

\* the tokens of the command lines of the example program
CatTokens ==
  { <<"x">>,   \* x
    <<"-", "-">>,   \* --
    <<"-", "n">>,   \* -n
    <<"-", "e">>,   \* -e
    <<"-", "v">>,   \* -v
    <<"-", "i">>,   \* -i
    <<"-", "o">>,   \* -o
    <<"-", "-", "c", "o", "o", "k", "i", "e", "-", "c", "h", "a", "n", "c", "e", "=", "0", ".", "5">>,   \* --cookie-chance=0.5
    <<"-", "-", "r", "e", "p", "e", "a", "t", "=", "3">>,   \* --repeat=3
    <<"-", "u">>,   \* -u
    <<"-", "-">> \o Help }   \* --help

\* the specification texts of these calls
ExitSpecLines == SpecLines \cup {mySpec}

\* the tokens a command line over a specification text is made of
TokensOver(text) == IF text = mySpec THEN CatTokens ELSE ExitTokens

ExitArgLists(text, x) == UNION {[1..k -> TokensOver(text)] : k \in 0..x}

InitExit ==
  /\ src \in ExitSpecLines
  /\ n = Len(Lines) + 1
  /\ stanza = 1
  /\ s \in {spec \in ConfiguredExit(NewOptions(src)) : spec.ok}
  /\ args \in ExitArgLists(src, MaxExitArgs)
  /\ i = NewFrame(s).i
  /\ opt = NewFrame(s).opt
  /\ pc = NewFrame(s).pc
  /\ exitLog = NewFrame(s).exitLog
  /\ errLog = NewFrame(s).errLog
  /\ written = NewFrame(s).written
  /\ panicMsg = NewFrame(s).panicMsg
  /\ cbLog = NewFrame(s).cbLog
  /\ scanned = NewFrame(s).scanned
  /\ got = Nil

SpecExit == InitExit /\ [][Next]_vars

(***************************************************************************)
(* The state machine of the usage request: a program that holds a          *)
(* configured OptionSpec calls PrintUsageAndExit itself.                   *)
(***************************************************************************)
\* the values of the ErrorWriter field: none, or a buffer of the program
ErrorWriters == {"nil", "buffer"}

SetErrorWriter(spec, w) == [spec EXCEPT !.ErrorWriter = w]

\* the error strings a program passes: none, and two messages
ErrStrings ==
  {NoErr, Msg("Unknown option", <<"u">>), Msg("Missing argument", <<"b">>)}

InitUsage ==
  /\ src \in SpecLines
  /\ n = Len(Lines) + 1
  /\ stanza = 1
  /\ s \in {SetErrorWriter(spec, w) :
              spec \in {c \in ConfiguredExit(NewOptions(src)) : c.ok},
              w \in ErrorWriters}
  /\ args = <<>>
  /\ i = NewFrame(s).i
  /\ opt = NewFrame(s).opt
  /\ pc = NewFrame(s).pc
  /\ exitLog = NewFrame(s).exitLog
  /\ errLog = NewFrame(s).errLog
  /\ written = NewFrame(s).written
  /\ panicMsg = NewFrame(s).panicMsg
  /\ cbLog = NewFrame(s).cbLog
  /\ scanned = NewFrame(s).scanned
  /\ got = Nil

\* the program calls s.PrintUsageAndExit(err)
CallPrintUsageAndExit ==
  /\ got = Nil
  /\ \E err \in ErrStrings :
       /\ Becomes(PrintUsageAndExit(s, Frame, err))
       /\ got' = Ptr([fn |-> "PrintUsageAndExit", err |-> err])
  /\ UNCHANGED <<src, n, stanza, s, args>>

NextUsage == CallPrintUsageAndExit

SpecUsage == InitUsage /\ [][NextUsage]_vars

(***************************************************************************)
(* The state machine of a program that calls Parse several times on one    *)
(* OptionSpec, keeping the result of the call before.                      *)
(***************************************************************************)
\* the longest command line of these calls
MaxReuseArgs == 2

\* the tokens of these command lines
ReuseTokens ==
  { <<"v">>,                                   \* v
    <<"-", "-">>,                              \* --
    <<"-", "a">>,                              \* -a
    <<"-", "-", "c", "c", "=", "v">> }         \* --cc=v

ReuseArgLists(x) == UNION {[1..k -> ReuseTokens] : k \in 0..x}

InitReuse ==
  /\ Constructed
  /\ args \in ReuseArgLists(MaxReuseArgs)
  /\ i = NewFrame(s).i
  /\ opt = NewFrame(s).opt
  /\ pc = NewFrame(s).pc
  /\ exitLog = NewFrame(s).exitLog
  /\ errLog = NewFrame(s).errLog
  /\ written = NewFrame(s).written
  /\ panicMsg = NewFrame(s).panicMsg
  /\ cbLog = NewFrame(s).cbLog
  /\ scanned = NewFrame(s).scanned
  /\ got = Nil

\* the program is between two calls: the call before has returned, or has
\* panicked and the program has recovered, or the program has configured the
\* OptionSpec since
BetweenCalls == pc \in {"returned", "panicked", "idle"}

\* what a statement of the program between two calls leaves alone
ProgramKeeps == UNCHANGED <<src, n, stanza, args, i, opt, exitLog, errLog, written,
                            panicMsg, cbLog, scanned, got>>

\* s.SetUnknownOptionsFatal(v) between two calls
CallSetUnknownOptionsFatal ==
  /\ BetweenCalls
  /\ \E v \in BOOLEAN : s' = SetUnknownOptionsFatal(s, v)
  /\ pc' = "idle"
  /\ ProgramKeeps

\* s.SetUnknownValuesFatal(v) between two calls
CallSetUnknownValuesFatal ==
  /\ BetweenCalls
  /\ \E v \in BOOLEAN : s' = SetUnknownValuesFatal(s, v)
  /\ pc' = "idle"
  /\ ProgramKeeps

\* s.SetParseCallback(cb) between two calls
CallSetParseCallback ==
  /\ BetweenCalls
  /\ \E cb \in Callbacks : s' = SetParseCallback(s, cb)
  /\ pc' = "idle"
  /\ ProgramKeeps

\* s.Exit = f between two calls
AssignExit ==
  /\ BetweenCalls
  /\ \E f \in ExitFunctions : s' = SetExit(s, f)
  /\ pc' = "idle"
  /\ ProgramKeeps

\* s.ErrorWriter = w between two calls
AssignErrorWriter ==
  /\ BetweenCalls
  /\ \E w \in ErrorWriters : s' = SetErrorWriter(s, w)
  /\ pc' = "idle"
  /\ ProgramKeeps

\* a faulty entry of Parse: the Options of the call before is used again
ParseAgainKeepingOpt ==
  /\ BetweenCalls
  /\ \E a \in ReuseArgLists(MaxReuseArgs) :
       /\ args' = a
       /\ Becomes([NewFrame(s) EXCEPT !.opt = opt])
  /\ got' = Ptr([fn |-> "Parse", args |-> args, opt |-> opt])
  /\ UNCHANGED <<src, n, stanza, s>>

\* the program keeps the Options it got, if any, and calls Parse again: a
\* new Options is made and seeded with the defaults
ParseAgain ==
  /\ BetweenCalls
  /\ \E a \in ReuseArgLists(MaxReuseArgs) :
       /\ args' = a
       /\ Becomes(NewFrame(s))
  /\ got' = Ptr([fn |-> "Parse", args |-> args, opt |-> opt])
  /\ UNCHANGED <<src, n, stanza, s>>

NextReuse ==
  \/ ParseTerminator \/ ParsePositional \/ ParseOption \/ ParseReturn \/ ParseAgain
  \/ CallSetUnknownOptionsFatal \/ CallSetUnknownValuesFatal \/ CallSetParseCallback
  \/ AssignExit \/ AssignErrorWriter

SpecReuse == InitReuse /\ [][NextReuse]_vars

(***************************************************************************)
(* The state machine of two concurrent calls of Parse on one OptionSpec.   *)
(* The call that runs is the one of the variables; the other call waits    *)
(* with its own arguments and its own frame, held in got.  What the two    *)
(* calls share is the OptionSpec, which they only read, the streams they   *)
(* write to, and the process.  A step of the running call is therefore an  *)
(* iteration of its loop as far as its call of Exit, that call of Exit, or *)
(* its return; between two steps the scheduler may let the other call run. *)
(* The writes of both calls go to the one stream written.  os.Exit and an  *)
(* unrecovered panic end the process, and with it the other call.          *)
(***************************************************************************)
\* the longest command line of the concurrent calls
MaxConcurrentArgs == 2

\* the tokens of the command lines of the concurrent calls
ConcurrentTokens == ReuseTokens \cup { <<"-", "b">> }      \* and -b

ConcurrentArgLists(x) == UNION {[1..k -> ConcurrentTokens] : k \in 0..x}

\* the waiting call: its arguments and its frame
OtherCall(a, fr) == Ptr([fn |-> "Parse", args |-> a, frame |-> fr])

OtherArgs == Deref(got).args

OtherFrame == Deref(got).frame

InitConcurrent ==
  /\ Constructed
  /\ args \in ConcurrentArgLists(MaxConcurrentArgs)
  /\ i = NewFrame(s).i
  /\ opt = NewFrame(s).opt
  /\ pc = NewFrame(s).pc
  /\ exitLog = NewFrame(s).exitLog
  /\ errLog = NewFrame(s).errLog
  /\ written = NewFrame(s).written
  /\ panicMsg = NewFrame(s).panicMsg
  /\ cbLog = NewFrame(s).cbLog
  /\ scanned = NewFrame(s).scanned
  /\ got \in {OtherCall(a, NewFrame(s)) : a \in ConcurrentArgLists(MaxConcurrentArgs)}

\* the call is at the statement s.Exit(code) of PrintUsageAndExit, its
\* message written
AtExit(code) == IF code = 0 THEN "s.Exit(0)" ELSE "s.Exit(EX_USAGE)"

\* the frame of an iteration stopped before its call of os.Exit
UntilExit(fr) ==
  IF fr.pc = "exited"
    THEN [fr EXCEPT !.pc = AtExit(fr.exitLog[Len(fr.exitLog)]),
                    !.exitLog = SubSeq(@, 1, Len(@) - 1)]
    ELSE fr

\* an iteration that reads a flag, as far as its call of os.Exit if it
\* comes to one
ParseOptionUntilExit ==
  /\ InLoop(args, Frame)
  /\ StepKind(args, Frame) = "option"
  /\ \E fr \in {UntilExit(StepOption(s, args, Frame))} : Becomes(fr)
  /\ UNCHANGED <<src, n, stanza, s, args, got>>

\* the call of os.Exit after the message has been written
ParseExit ==
  /\ pc \in {AtExit(0), AtExit(EX_USAGE)}
  /\ \E fr \in {CallExit(s, [Frame EXCEPT !.pc = "loop"],
                          IF pc = AtExit(0) THEN 0 ELSE EX_USAGE)} : Becomes(fr)
  /\ UNCHANGED <<src, n, stanza, s, args, got>>

\* the running call has not ended the process
ProcessRuns == pc \notin {"exited", "panicked"}

\* a faulty Parse: the two calls work on one Options
SwitchSharingOpt ==
  /\ ProcessRuns
  /\ args' = OtherArgs
  /\ Becomes([OtherFrame EXCEPT !.opt = opt, !.written = written])
  /\ got' = OtherCall(args, [Frame EXCEPT !.written = <<>>])
  /\ UNCHANGED <<src, n, stanza, s>>

\* the scheduler lets the other call run: each call keeps its own
\* arguments, position and Options; the stream written is the one of the
\* process
Switch ==
  /\ ProcessRuns
  /\ args' = OtherArgs
  /\ Becomes([OtherFrame EXCEPT !.written = written])
  /\ got' = OtherCall(args, [Frame EXCEPT !.written = <<>>])
  /\ UNCHANGED <<src, n, stanza, s>>

NextConcurrent ==
  \/ ParseTerminator \/ ParsePositional \/ ParseOptionUntilExit \/ ParseExit
  \/ ParseReturn \/ Switch

SpecConcurrent == InitConcurrent /\ [][NextConcurrent]_vars

(***************************************************************************)
(* The state machine of GetAll: a program that holds a log of flags looks  *)
(* up the values of one flag in it.                                        *)
(***************************************************************************)
\* the longest log of flags
MaxLogLen == 3

\* the flags of the log, as presented
LoggedFlags == { <<"-", "b">>, <<"-", "-", "c", "c">> }

\* the entries of the log: a flag alone, or a flag and its value
LogEntries ==
  {<<f>> : f \in LoggedFlags} \cup {<<f, v>> : f \in LoggedFlags, v \in {<<"v">>, <<"w">>}}

FlagsLogs(x) == UNION {[1..k -> LogEntries] : k \in 0..x}

\* the texts a program looks up: the logged ones, a name without its
\* dashes, and a flag that is not in the log
LookedUp == LoggedFlags \cup { <<"c", "c">>, <<"-", "a">> }

InitGetAll ==
  /\ src = LinesA
  /\ n = Len(Lines) + 1
  /\ stanza = 1
  /\ s = NewOptions(src)
  /\ args = <<>>
  /\ i = NewFrame(s).i
  /\ opt \in {[NewFrame(s).opt EXCEPT !.Flags = log] : log \in FlagsLogs(MaxLogLen)}
  /\ pc = "returned"
  /\ exitLog = NewFrame(s).exitLog
  /\ errLog = NewFrame(s).errLog
  /\ written = NewFrame(s).written
  /\ panicMsg = NewFrame(s).panicMsg
  /\ cbLog = NewFrame(s).cbLog
  /\ scanned = NewFrame(s).scanned
  /\ got = Nil

\* the caller evaluates GetAll(flag, opt.Flags)
CallGetAll ==
  /\ got = Nil
  /\ \E flag \in LookedUp :
       got' = Ptr([fn |-> "GetAll", flag |-> flag,
                   panic |-> GetAll(flag, opt.Flags).panic,
                   val |-> GetAll(flag, opt.Flags).val])
  /\ UNCHANGED <<src, n, stanza, s, args, i, opt, pc, exitLog, errLog, written, panicMsg, cbLog, scanned>>

NextGetAll == CallGetAll

SpecGetAll == InitGetAll /\ [][NextGetAll]_vars

(***************************************************************************)
(* The state machine of NewOptions: one action per branch of the loop over *)
(* the lines of the specification text.                                    *)
(***************************************************************************)
\* the largest number of lines after the separator
MaxSpecLines == 3

\* the lines a specification text is made of
CandidateLines ==
  { <<"a", ",", "a", "a", " ", "x">>,                     \* a,aa x
    <<"b", ",", "c", "c", "=", " ", "[", "d", "]">>,      \* b,cc= [d]
    <<"c", "c", ",", "b", " ", "x">>,                     \* cc,b x
    <<"a", ",", "a", " ", "x">>,                          \* a,a x
    <<"a", "a", "=", " ", "y", "]">>,                     \* aa= y]
    <<"e", " ", "[", "1", "]", " ", "z">>,                \* e [1] z
    <<"a", ",", ",", "b", " ", "x">>,                     \* a,,b x
    <<"u">>,                                              \* u
    <<>> }                                                \* the empty line

\* the texts handed to NewOptions: a synopsis alone, or a synopsis, the
\* separator and at most MaxSpecLines lines
SpecTexts ==
  {<<"T">>} \cup
  {Join(<< <<"T">>, <<"-", "-">> >> \o ls, <<"\n">>) :
     ls \in UNION {[1..k -> CandidateLines] : k \in 0..MaxSpecLines}}

\* no call of Parse has been made
NoParseYet ==
  /\ args = <<>>
  /\ i = 1
  /\ opt = [opts |-> <<>>, known |-> <<>>, Flags |-> <<>>, Extra |-> <<>>, Leftover |-> <<>>]
  /\ exitLog = <<>>
  /\ errLog = <<>>
  /\ written = <<>>
  /\ cbLog = <<>>
  /\ scanned = <<>>
  /\ got = Nil

\* the compilation in the current state
CompileFrame == [s |-> s, stanza |-> stanza, n |-> n, pc |-> pc, panicMsg |-> panicMsg]

\* the compilation moves to cf
CompileBecomes(cf) ==
  /\ s' = cf.s
  /\ stanza' = cf.stanza
  /\ n' = cf.n
  /\ pc' = cf.pc
  /\ panicMsg' = cf.panicMsg
  /\ UNCHANGED <<src, args, i, opt, exitLog, errLog, written, cbLog, scanned, got>>

\* NewOptions is entered
InitCompile ==
  /\ src \in SpecTexts
  /\ s = NewCompile.s
  /\ stanza = NewCompile.stanza
  /\ n = NewCompile.n
  /\ pc = NewCompile.pc
  /\ panicMsg = NewCompile.panicMsg
  /\ NoParseYet

\* the loop reads a line of the given kind
AtLine(kind) == Compiling(Lines, CompileFrame) /\ LineKind(CompileFrame, Lines[n]) = kind

CompileSeparator ==
  AtLine("separator") /\ CompileBecomes(StepSeparator(CompileFrame, Lines[n]))

CompileSynopsis ==
  AtLine("synopsis") /\ CompileBecomes(StepSynopsis(CompileFrame, Lines[n]))

CompileBlank ==
  AtLine("blank") /\ CompileBecomes(StepBlank(CompileFrame, Lines[n]))

CompileNoParse ==
  AtLine("noparse") /\ CompileBecomes(StepNoParse(CompileFrame, Lines[n]))

CompileOption ==
  AtLine("option") /\ CompileBecomes(StepOptionLine(CompileFrame, Lines[n]))

\* the loop is over: NewOptions returns s
CompileReturn ==
  /\ pc = "compiling"
  /\ n > Len(Lines)
  /\ pc' = "compiled"
  /\ UNCHANGED <<src, n, stanza, s, args, i, opt, exitLog, errLog, written, panicMsg, cbLog, scanned, got>>

NextCompile ==
  \/ CompileSeparator
  \/ CompileSynopsis
  \/ CompileBlank
  \/ CompileNoParse
  \/ CompileOption
  \/ CompileReturn

SpecCompile == InitCompile /\ [][NextCompile]_vars

(***************************************************************************)
(* The state machine of the accessors: a program that has parsed its       *)
(* command line looks options up in the result.                            *)
(***************************************************************************)
\* the longest command line of the programs that look options up
MaxAccessArgs == 2

\* the names a program may look up: the declared ones, an undeclared one and
\* the empty name
ProbedNames(spec) == DOMAIN spec.aliases \cup {<<"u">>, <<>>}

\* the program calls Parse on its command line
InitAccess ==
  /\ Constructed
  /\ args \in ArgLists(MaxAccessArgs)
  /\ i = NewFrame(s).i
  /\ opt = NewFrame(s).opt
  /\ pc = NewFrame(s).pc
  /\ exitLog = NewFrame(s).exitLog
  /\ errLog = NewFrame(s).errLog
  /\ written = NewFrame(s).written
  /\ panicMsg = NewFrame(s).panicMsg
  /\ cbLog = NewFrame(s).cbLog
  /\ scanned = NewFrame(s).scanned
  /\ got = Nil

\* the caller evaluates opt.Get(flag)
CallGet ==
  /\ pc = "returned"
  /\ \E flag \in ProbedNames(s) :
       got' = Ptr([fn |-> "Get", flag |-> flag,
                   panic |-> Get(opt, flag).panic, val |-> Get(opt, flag).val])
  /\ UNCHANGED <<src, n, stanza, s, args, i, opt, pc, exitLog, errLog, written, panicMsg, cbLog, scanned>>

NextAccess ==
  ParseTerminator \/ ParsePositional \/ ParseOption \/ ParseReturn \/ CallGet

SpecAccess == InitAccess /\ [][NextAccess]_vars

(***************************************************************************)
(* Vocabulary of the properties.                                           *)
(***************************************************************************)
Range(seq) == {seq[k] : k \in DOMAIN seq}

\* the standard callback is in use
NoUserCallback == s.ParseCallback = "nil"

\* the call has ended with a fatal error: a panic, or an exit with status 64
Fatal == pc \in {"exited", "panicked"}

\* the call has ended through the usage/exit collaborator with the given text
FatalWith(text) ==
  /\ pc = "exited"
  /\ exitLog = <<EX_USAGE>>
  /\ Len(errLog) = 1
  /\ errLog[1].text = text

\* the indices the loop read a token at
Scanned == Range(scanned)

\* token k was read by the loop as a flag
ScannedFlag(k) == k \in Scanned /\ TokenKind(args[k]) = "option"

\* the name is a registered alias of an option that takes an argument
TakesArg(name) ==
  name \in DOMAIN s.aliases /\ LookupBool(s.requiresArg, s.aliases[name])

\* the name is a registered alias of an option that takes no argument
TakesNoArg(name) ==
  name \in DOMAIN s.aliases /\ ~LookupBool(s.requiresArg, s.aliases[name])

\* the flag is decoded character by character
IsCluster(m) ==
  /\ m.presentedDash = <<"-">>
  /\ Len(m.presentedFlagName) > 1
  /\ m.presentedFlagName \notin DOMAIN s.aliases

\* token k is a flag with one dash whose name of several characters is an alias
DashedAlias(k) ==
  /\ FlagRe(args[k]).presentedDash = <<"-">>
  /\ Len(FlagRe(args[k]).presentedFlagName) > 1
  /\ FlagRe(args[k]).presentedFlagName \in DOMAIN s.aliases

\* every character of the name is a registered alias
AllRegistered(name) == \A j \in 1..Len(name) : <<name[j]>> \in DOMAIN s.aliases

(***************************************************************************)
(* C1.  Parsing the empty token list returns a result in which every       *)
(* canonical name declared with a default has that default as its value,   *)
(* and the Flags log, Extra and Leftover are empty.                        *)
(***************************************************************************)
ThmEmptyArgsYieldDefaults ==
  args = <<>> =>
    /\ ~Fatal
    /\ pc = "returned" =>
         /\ \A c \in DOMAIN s.defaults :
              ~Get(opt, c).panic /\ Get(opt, c).val = s.defaults[c]
         /\ opt.Flags = <<>>
         /\ opt.Extra = <<>>
         /\ opt.Leftover = <<>>

WitEmptyArgsYieldDefaults ==
  /\ args = <<>>
  /\ pc = "returned"
  /\ \E c \in DOMAIN s.defaults : Get(opt, c).val = s.defaults[c] /\ s.defaults[c] # <<>>

(***************************************************************************)
(* C6.  Without a user callback, a known option that requires an argument, *)
(* read as the last token and without an inline value, ends the parse with *)
(* the fatal error "Missing argument", whatever the settings of            *)
(* UnknownOptionsFatal and UnknownValuesFatal.                             *)
(***************************************************************************)
\* token k is the last one, a known option requiring an argument, with no value
LastTokenLacksArgument(k) ==
  /\ k = Len(args)
  /\ ScannedFlag(k)
  /\ TakesArg(FlagRe(args[k]).presentedFlagName)
  /\ ~FlagRe(args[k]).haveSelfValue

CexMissingArgumentIsFatal ==
  \A k \in 1..Len(args) :
    (NoUserCallback /\ LastTokenLacksArgument(k)) =>
      /\ FatalWith("Missing argument")
      /\ errLog[1].subject = FlagRe(args[k]).presentedFlagName

\* the same, for an option not given with one dash and a name of several
\* characters
MissingArgumentIsFatalButDashedAlias ==
  \A k \in 1..Len(args) :
    (NoUserCallback /\ LastTokenLacksArgument(k) /\ ~DashedAlias(k)) =>
      /\ FatalWith("Missing argument")
      /\ errLog[1].subject = FlagRe(args[k]).presentedFlagName

(***************************************************************************)
(* C9.  Without a user callback and with UnknownOptionsFatal set, a flag   *)
(* read by the loop whose name is not a registered alias and is not a      *)
(* cluster of registered short aliases ends the parse with a fatal error:  *)
(* Parse does not return a result.                                         *)
(***************************************************************************)
\* the flag resolves to nothing: not an alias, not a cluster of aliases
Unresolvable(m) ==
  /\ m.presentedFlagName \notin DOMAIN s.aliases
  /\ ~(IsCluster(m) /\ AllRegistered(m.presentedFlagName))

ThmUnknownOptionIsFatal ==
  \A k \in 1..Len(args) :
    (NoUserCallback /\ s.UnknownOptionsFatal /\ ScannedFlag(k) /\ Unresolvable(FlagRe(args[k])))
      => /\ pc = "exited"
         /\ exitLog = <<EX_USAGE>>
         /\ ~IsCluster(FlagRe(args[k])) =>
              /\ FatalWith("Unkown option")
              /\ errLog[1].subject = FlagRe(args[k]).presentedFlagName

WitUnknownOptionIsFatal ==
  /\ NoUserCallback
  /\ s.UnknownOptionsFatal
  /\ Len(args) >= 2
  /\ ScannedFlag(2)
  /\ Unresolvable(FlagRe(args[2]))
  /\ FatalWith("Unkown option")

(***************************************************************************)
(* C10.  When the loop reads the terminator "--" at index k, Leftover is   *)
(* exactly the tokens after k, in order; no token after k is read, and     *)
(* the values, the Flags log and Extra are those of parsing the tokens up  *)
(* to k alone.  Leftover is empty as long as no terminator has been read.  *)
(***************************************************************************)
\* the loop has read the terminator at index k
TerminatorAt(k) == k \in Scanned /\ args[k] = <<"-", "-">>

ThmLeftoverIsTheTail ==
  /\ (~\E k \in 1..Len(args) : TerminatorAt(k)) => opt.Leftover = <<>>
  /\ \A k \in 1..Len(args) :
       TerminatorAt(k) =>
         /\ opt.Leftover = SubSeq(args, k + 1, Len(args))
         /\ \A j \in Scanned : j <= k
         /\ pc \in {"break", "returned"}
         /\ opt.opts = Parse(s, SubSeq(args, 1, k)).opt.opts
         /\ opt.Flags = Parse(s, SubSeq(args, 1, k)).opt.Flags
         /\ opt.Extra = Parse(s, SubSeq(args, 1, k)).opt.Extra

WitLeftoverIsTheTail ==
  /\ pc = "returned"
  /\ TerminatorAt(1)
  /\ Len(args) = 3
  /\ TokenKind(args[2]) = "option"
  /\ args[2] # args[3]
  /\ opt.Leftover = <<args[2], args[3]>>

(***************************************************************************)
(* C2.  For a known option that requires an argument, given through any of *)
(* its aliases, the two tokens "--name", "value" and the single token      *)
(* "--name=value" give the same stored values and the same Flags log, and  *)
(* neither leaves anything in Extra.                                       *)
(***************************************************************************)
\* tokens k and k+1 are the two-token form of a known option with an argument
TwoTokenForm(k) ==
  /\ k < Len(args)
  /\ ScannedFlag(k)
  /\ TakesArg(FlagRe(args[k]).presentedFlagName)
  /\ ~FlagRe(args[k]).haveSelfValue

\* the argument list with tokens k and k+1 joined into the one-token form
Joined(k) ==
  SubSeq(args, 1, k - 1) \o <<args[k] \o <<"=">> \o args[k + 1]>>
    \o SubSeq(args, k + 2, Len(args))

CexInlineEqualsTwoTokens ==
  \A k \in 1..Len(args) :
    (NoUserCallback /\ pc = "returned" /\ TwoTokenForm(k)) =>
      /\ Parse(s, Joined(k)).pc = "returned"
      /\ Parse(s, Joined(k)).opt.opts = opt.opts
      /\ Parse(s, Joined(k)).opt.Flags = opt.Flags
      /\ Parse(s, Joined(k)).opt.Extra = opt.Extra

\* the same, for values without a newline
InlineEqualsTwoTokensOnOneLine ==
  \A k \in 1..Len(args) :
    (NoUserCallback /\ pc = "returned" /\ TwoTokenForm(k) /\ "\n" \notin Range(args[k + 1])) =>
      /\ Parse(s, Joined(k)).pc = "returned"
      /\ Parse(s, Joined(k)).opt.opts = opt.opts
      /\ Parse(s, Joined(k)).opt.Flags = opt.Flags
      /\ Parse(s, Joined(k)).opt.Extra = opt.Extra

(***************************************************************************)
(* C3.  A cluster "-xyz" of declared options without argument gives the    *)
(* same values, Extra, Leftover and the same success or failure as the     *)
(* separate tokens "-x", "-y", "-z" in its place, whatever follows.        *)
(***************************************************************************)
\* token k is a cluster of registered options that take no argument
PlainCluster(k) ==
  /\ ScannedFlag(k)
  /\ IsCluster(FlagRe(args[k]))
  /\ ~FlagRe(args[k]).haveSelfValue
  /\ \A j \in 1..Len(FlagRe(args[k]).presentedFlagName) :
       TakesNoArg(<<FlagRe(args[k]).presentedFlagName[j]>>)

\* the argument list with the cluster at k replaced by one token per character
Unclustered(k) ==
  SubSeq(args, 1, k - 1)
    \o [j \in 1..Len(FlagRe(args[k]).presentedFlagName) |->
          <<"-", FlagRe(args[k]).presentedFlagName[j]>>]
    \o SubSeq(args, k + 1, Len(args))

\* the two calls end alike
SameOutcome(fr) ==
  /\ (fr.pc = "returned") = (pc = "returned")
  /\ pc = "returned" =>
       /\ fr.opt.opts = opt.opts
       /\ fr.opt.Extra = opt.Extra
       /\ fr.opt.Leftover = opt.Leftover

CexClusterEqualsSeparateFlags ==
  \A k \in 1..Len(args) :
    (NoUserCallback /\ (pc = "returned" \/ Fatal) /\ PlainCluster(k))
      => SameOutcome(Parse(s, Unclustered(k)))

\* the same, when no positional token follows the cluster
ClusterEqualsSeparateFlagsBeforeFlag ==
  \A k \in 1..Len(args) :
    (/\ NoUserCallback
     /\ pc = "returned" \/ Fatal
     /\ PlainCluster(k)
     /\ k < Len(args) => HasDashPrefix(args[k + 1]))
      => SameOutcome(Parse(s, Unclustered(k)))

(***************************************************************************)
(* C5.  A known option without argument given with an inline value is a    *)
(* fatal "Unexpected argument" error: Parse does not return a result in    *)
(* which the occurrence was counted and the value dropped.                 *)
(***************************************************************************)
\* token k is a known option without argument, not clustered, with a value
InlineValueOnPlainFlag(k) ==
  /\ ScannedFlag(k)
  /\ TakesNoArg(FlagRe(args[k]).presentedFlagName)
  /\ FlagRe(args[k]).haveSelfValue

CexInlineValueOnPlainFlagIsFatal ==
  \A k \in 1..Len(args) :
    (NoUserCallback /\ InlineValueOnPlainFlag(k)) => Fatal

(***************************************************************************)
(* C7.  With UnknownOptionsFatal off, an unknown option with an inline     *)
(* value is logged in Flags with that value and consumes no further token, *)
(* whatever follows it.                                                    *)
(***************************************************************************)
\* token k is an unknown option carrying an inline value
UnknownWithInlineValue(k) ==
  /\ ScannedFlag(k)
  /\ FlagRe(args[k]).presentedFlagName \notin DOMAIN s.aliases
  /\ ~IsCluster(FlagRe(args[k]))
  /\ FlagRe(args[k]).haveSelfValue

CexUnknownInlineValueIsLogged ==
  \A k \in 1..Len(args) :
    (NoUserCallback /\ ~s.UnknownOptionsFatal /\ UnknownWithInlineValue(k)) =>
      /\ <<FlagRe(args[k]).presentedFlag, FlagRe(args[k]).selfValue>> \in Range(opt.Flags)
      /\ i = k + 1 \/ k + 1 \in Scanned

\* the same, when a token without a leading dash follows
UnknownInlineValueIsLoggedBeforePositional ==
  \A k \in 1..Len(args) :
    (/\ NoUserCallback
     /\ ~s.UnknownOptionsFatal
     /\ UnknownWithInlineValue(k)
     /\ k < Len(args)
     /\ ~HasDashPrefix(args[k + 1])) =>
      /\ <<FlagRe(args[k]).presentedFlag, FlagRe(args[k]).selfValue>> \in Range(opt.Flags)
      /\ i = k + 1 \/ k + 1 \in Scanned

(***************************************************************************)
(* Vocabulary of the properties of one iteration.                          *)
(***************************************************************************)
\* the flag at the head of the loop
Cur == FlagRe(args[i])

\* the loop is about to read a flag and hand it to the standard callback
AtFlag == InLoop(args, Frame) /\ StepKind(args, Frame) = "option" /\ NoUserCallback

\* the iteration appends entry to the Flags log and changes nothing else there
Logs(entry) == opt'.Flags = Append(opt.Flags, entry)

\* the iteration ends the parse through the usage/exit collaborator
ExitsWith(text) ==
  /\ pc' = "exited"
  /\ exitLog' = <<EX_USAGE>>
  /\ Len(errLog') = 1
  /\ errLog'[1].text = text

\* the canonical names of the options that take no argument
Counters == {s.aliases[x] : x \in {y \in DOMAIN s.aliases : TakesNoArg(y)}}

\* how many characters of the name select the option c
Occurrences(name, c) ==
  Cardinality({j \in 1..Len(name) : Lookup(s.aliases, <<name[j]>>) = c})

(***************************************************************************)
(* C4.  In a cluster only the last character may take a value.  When the   *)
(* last character is an option with an argument it receives the inline     *)
(* value, or else the following token.  When it has neither, or when an    *)
(* earlier character is an option with an argument, the parse ends with    *)
(* the fatal error "Missing argument".  In a cluster that is accepted,     *)
(* every option without argument is counted once per character.            *)
(***************************************************************************)
\* an earlier character of the cluster is an option with an argument
EarlyTakesArg(name) == \E j \in 1..(Len(name) - 1) : TakesArg(<<name[j]>>)

\* the last character of the cluster is an option with an argument
LastTakesArg(name) == TakesArg(<<name[Len(name)]>>)

\* the cluster at the head of the loop has a value within reach
ValueInReach == Cur.haveSelfValue \/ i < Len(args)

\* that value: the inline one, or else the following token
ReachedValue == IF Cur.haveSelfValue THEN Cur.selfValue ELSE args[i + 1]

ClusterStep ==
  (/\ AtFlag
   /\ IsCluster(Cur)
   /\ AllRegistered(Cur.presentedFlagName) \/ ~s.UnknownOptionsFatal) =>
    LET name == Cur.presentedFlagName
    IN  /\ (EarlyTakesArg(name) \/ (LastTakesArg(name) /\ ~ValueInReach))
             => ExitsWith("Missing argument")
        /\ (~EarlyTakesArg(name) /\ LastTakesArg(name) /\ ValueInReach)
             => /\ pc' = "loop"
                /\ opt'.opts[s.aliases[<<name[Len(name)]>>]] = ReachedValue
                /\ Logs(<<Cur.presentedFlag, ReachedValue>>)
                /\ i' = IF Cur.haveSelfValue THEN i + 1 ELSE i + 2
        /\ pc' = "loop"
             => \A c \in Counters :
                  GetInt(opt', c).num = GetInt(opt, c).num + Occurrences(name, c)

ThmClusterOnlyLastTakesValue == [][ClusterStep]_vars

WitClusterOnlyLastTakesValue ==
  /\ NoUserCallback
  /\ pc = "returned"
  /\ scanned = <<1>>
  /\ Len(args) = 2
  /\ IsCluster(FlagRe(args[1]))
  /\ TakesNoArg(<<FlagRe(args[1]).presentedFlagName[1]>>)
  /\ LastTakesArg(FlagRe(args[1]).presentedFlagName)
  /\ HasDashPrefix(args[2])
  /\ Get(opt, <<"c", "c">>).val = args[2]
  /\ GetInt(opt, s.aliases[<<"a">>]).num = GetInt(NewFrame(s).opt, s.aliases[<<"a">>]).num + 1

(***************************************************************************)
(* C8.  With UnknownOptionsFatal off and no user callback, an unknown      *)
(* option without inline value takes the following token as its value      *)
(* exactly when there is one and it does not start with a dash; otherwise  *)
(* it is logged without value and the following token is read next.  The   *)
(* values of the known options are left as they are.  (An unknown option   *)
(* is a flag in which nothing resolves: neither its name nor, for a        *)
(* cluster, any of its characters.)                                        *)
(***************************************************************************)
\* nothing in the flag resolves to a declared option
NothingRegistered(m) ==
  /\ m.presentedFlagName \notin DOMAIN s.aliases
  /\ IsCluster(m) =>
       \A j \in 1..Len(m.presentedFlagName) : <<m.presentedFlagName[j]>> \notin DOMAIN s.aliases

\* the token after the head of the loop exists and has no leading dash
PlainTokenFollows == i < Len(args) /\ ~HasDashPrefix(args[i + 1])

UnknownStep ==
  (/\ AtFlag
   /\ ~s.UnknownOptionsFatal
   /\ NothingRegistered(Cur)
   /\ ~Cur.haveSelfValue) =>
    /\ pc' = "loop"
    /\ opt'.opts = opt.opts
    /\ opt'.Extra = opt.Extra
    /\ opt'.Leftover = opt.Leftover
    /\ PlainTokenFollows => Logs(<<Cur.presentedFlag, args[i + 1]>>) /\ i' = i + 2
    /\ ~PlainTokenFollows => Logs(<<Cur.presentedFlag>>) /\ i' = i + 1

ThmUnknownTakesPlainToken == [][UnknownStep]_vars

WitUnknownTakesPlainToken ==
  /\ NoUserCallback
  /\ ~s.UnknownOptionsFatal
  /\ pc = "returned"
  /\ Len(args) = 3
  /\ scanned = <<1, 3>>
  /\ NothingRegistered(FlagRe(args[1]))
  /\ ~FlagRe(args[1]).haveSelfValue
  /\ TokenKind(args[3]) = "option"
  /\ TakesArg(FlagRe(args[3]).presentedFlagName)
  /\ opt.Flags = << <<FlagRe(args[1]).presentedFlag, args[2]>>,
                    <<FlagRe(args[3]).presentedFlag, FlagRe(args[3]).selfValue>> >>
  /\ Get(opt, <<"c", "c">>).val = FlagRe(args[3]).selfValue

(***************************************************************************)
(* C11.  A token read by the loop that is neither the terminator nor a     *)
(* flag goes to Extra: with UnknownValuesFatal off, Extra is the sequence  *)
(* of these tokens in the order they were read; with UnknownValuesFatal    *)
(* on, the first one ends the parse with the panic "Unexpected argument"   *)
(* naming it, nothing is read after it and Extra stays empty.              *)
(***************************************************************************)
\* token k has not the shape of a flag
PositionalAt(k) == TokenKind(args[k]) = "positional"

\* the indices the loop read such a token at, in the order it read them
ScannedPositionals == SelectSeq(scanned, PositionalAt)

ThmPositionalGoesToExtra ==
  /\ ~s.UnknownValuesFatal =>
       opt.Extra = [e \in 1..Len(ScannedPositionals) |-> args[ScannedPositionals[e]]]
  /\ s.UnknownValuesFatal =>
       /\ opt.Extra = <<>>
       /\ \A k \in Scanned :
            PositionalAt(k) =>
              /\ pc = "panicked"
              /\ panicMsg = Ptr(Msg("Unexpected argument", args[k]))
              /\ scanned[Len(scanned)] = k

WitPositionalGoesToExtra ==
  /\ ~s.UnknownValuesFatal
  /\ pc = "returned"
  /\ scanned = <<1, 2, 3>>
  /\ PositionalAt(1)
  /\ ScannedFlag(2)
  /\ PositionalAt(3)
  /\ args[1] # args[3]
  /\ "=" \in Range(args[1])
  /\ opt.Extra = <<args[1], args[3]>>

(***************************************************************************)
(* C12.  Without a user callback, after a successful Parse the integer     *)
(* value of every option without argument (and without default) is the     *)
(* number n of its occurrences among the flags read, through any alias, as *)
(* a flag of its own or as a character of a cluster.                       *)
(***************************************************************************)
\* how many times the flag at token k selects the option c: once per character
\* in a cluster, once as a flag whose name is an alias of c
SelectedBy(k, c) ==
  IF IsCluster(FlagRe(args[k])) THEN Occurrences(FlagRe(args[k]).presentedFlagName, c)
  ELSE IF Lookup(s.aliases, FlagRe(args[k]).presentedFlagName) = c THEN 1
  ELSE 0

\* the same, as the standard callback decodes the flag: by character whenever
\* it has one dash and a name of several characters
DecodedAs(k, c) ==
  IF FlagRe(args[k]).presentedDash = <<"-">> /\ Len(FlagRe(args[k]).presentedFlagName) > 1
    THEN Occurrences(FlagRe(args[k]).presentedFlagName, c)
  ELSE IF Lookup(s.aliases, FlagRe(args[k]).presentedFlagName) = c THEN 1
  ELSE 0

RECURSIVE OccurrencesIn(_, _)
\* how many times the flags read at the indices seq select the option c
OccurrencesIn(seq, c) ==
  IF seq = <<>> THEN 0
  ELSE (IF TokenKind(args[Head(seq)]) = "option" THEN SelectedBy(Head(seq), c) ELSE 0)
         + OccurrencesIn(Tail(seq), c)

RECURSIVE DecodedIn(_, _)
DecodedIn(seq, c) ==
  IF seq = <<>> THEN 0
  ELSE (IF TokenKind(args[Head(seq)]) = "option" THEN DecodedAs(Head(seq), c) ELSE 0)
         + DecodedIn(Tail(seq), c)

CexCountIsOccurrences ==
  (NoUserCallback /\ pc = "returned") =>
    \A c \in Counters \ DOMAIN s.defaults :
      ~GetInt(opt, c).panic /\ GetInt(opt, c).num = OccurrencesIn(scanned, c)

\* what holds instead: the count starts at the default and follows the
\* decoding of the standard callback
CountIsDefaultPlusDecoded ==
  (NoUserCallback /\ ~Fatal) =>
    \A c \in Counters :
      /\ ~GetInt(opt, c).panic
      /\ GetInt(opt, c).num = GetInt(NewFrame(s).opt, c).num + DecodedIn(scanned, c)

(***************************************************************************)
(* C13.  Without a user callback, when an option with an argument is given *)
(* several times among the flags read, through any of its aliases, its     *)
(* value after Parse is the value of the last of these occurrences.        *)
(***************************************************************************)
\* the canonical names of the options that take an argument
ArgTakers == {s.aliases[x] : x \in {y \in DOMAIN s.aliases : TakesArg(y)}}

\* the name through which the flag can be given a value: its last character
\* in a cluster, the whole name otherwise
ValuedName(m) ==
  IF IsCluster(m) THEN <<m.presentedFlagName[Len(m.presentedFlagName)]>>
  ELSE m.presentedFlagName

\* the flag read at token k is an occurrence of the option c
GivesValueTo(k, c) ==
  ScannedFlag(k) /\ Lookup(s.aliases, ValuedName(FlagRe(args[k]))) = c

\* the value of the occurrence at k: the inline one, or else the next token
ValueGivenAt(k) ==
  IF FlagRe(args[k]).haveSelfValue THEN FlagRe(args[k]).selfValue ELSE args[k + 1]

\* the occurrence at k has a value
HasValueAt(k) == FlagRe(args[k]).haveSelfValue \/ k < Len(args)

\* token k is the last occurrence of c, and not the only one
LastOfSeveral(k, c) ==
  /\ GivesValueTo(k, c)
  /\ \E j \in 1..(k - 1) : GivesValueTo(j, c)
  /\ \A j \in (k + 1)..Len(args) : ~GivesValueTo(j, c)

CexLastOccurrenceWins ==
  (NoUserCallback /\ pc = "returned") =>
    \A c \in ArgTakers :
      \A k \in 1..Len(args) :
        LastOfSeveral(k, c) => HasValueAt(k) /\ Get(opt, c).val = ValueGivenAt(k)

\* the same, for occurrences that are not of that kind
LastOccurrenceWinsButDashedAlias ==
  (NoUserCallback /\ ~Fatal) =>
    \A c \in ArgTakers :
      \A k \in 1..Len(args) :
        (/\ GivesValueTo(k, c)
         /\ \A j \in (k + 1)..Len(args) : ~GivesValueTo(j, c)
         /\ ~DashedAlias(k))
          => HasValueAt(k) /\ Get(opt, c).val = ValueGivenAt(k)

(***************************************************************************)
(* C14.  Without a user callback, as long as the parse has not failed the  *)
(* Flags log has one entry per flag read by the loop, in reading order,    *)
(* repeats included.  The first element of an entry is the text of the     *)
(* token as typed, up to its "=" if it has one; the second element, when   *)
(* present, is the inline value of the token or else the following token,  *)
(* which the loop then does not read.                                      *)
(***************************************************************************)
\* token k has the shape of a flag
OptionAt(k) == TokenKind(args[k]) = "option"

\* the indices the loop read a flag at, in the order it read them
ScannedFlags == SelectSeq(scanned, OptionAt)

\* text is the token as typed, without its inline value
AsPresented(text, token) ==
  /\ Len(text) <= Len(token)
  /\ text = SubSeq(token, 1, Len(text))
  /\ "=" \notin Range(text)
  /\ Len(text) < Len(token) => token[Len(text) + 1] = "="

\* e is the entry of the flag read at token k
EntryOf(e, k) ==
  /\ Len(e) \in {1, 2}
  /\ AsPresented(e[1], args[k])
  /\ (Len(e) = 2 /\ Len(e[1]) < Len(args[k])) => e[2] = Drop(args[k], Len(e[1]) + 1)
  /\ (Len(e) = 2 /\ Len(e[1]) = Len(args[k])) =>
       k < Len(args) /\ k + 1 \notin Scanned /\ e[2] = args[k + 1]
  /\ Len(e) = 1 => k = Len(args) \/ k + 1 \in Scanned \/ i = k + 1

ThmFlagsLogsEveryFlag ==
  (NoUserCallback /\ ~Fatal) =>
    /\ Len(opt.Flags) = Len(ScannedFlags)
    /\ \A e \in 1..Len(ScannedFlags) : EntryOf(opt.Flags[e], ScannedFlags[e])

WitFlagsLogsEveryFlag ==
  /\ NoUserCallback
  /\ pc = "returned"
  /\ scanned = <<1, 2, 3>>
  /\ args[1] = args[2]
  /\ opt.Flags = << <<(<<"-", "a", "b">>), <<"v">>>>,
                    <<(<<"-", "a", "b">>), <<"v">>>>,
                    <<(<<"-", "a">>)>> >>
  /\ s.aliases[<<"a">>] # <<"a">>

(***************************************************************************)
(* C15.  Get accepts canonical names only.  For a canonical name of the    *)
(* spec it returns the value stored under that name, and "" when none is   *)
(* stored, as for an option without default that was not given; for any    *)
(* other name, a declared alias that is not canonical included, it panics. *)
(***************************************************************************)
\* the canonical names of the spec
Canonicals == {s.aliases[x] : x \in DOMAIN s.aliases}

\* a flag read by the loop selects the option c
Given(c) == \E k \in Scanned : OptionAt(k) /\ DecodedAs(k, c) > 0

\* g is a correct result of Get
GetResult(g) ==
  /\ g.flag \in Canonicals =>
       /\ ~g.panic
       /\ g.flag \in DOMAIN opt.opts => g.val = opt.opts[g.flag]
       /\ g.flag \notin DOMAIN opt.opts => g.val = <<>>
       /\ (g.flag \notin DOMAIN s.defaults /\ ~Given(g.flag)) => g.val = <<>>
  /\ g.flag \notin Canonicals => g.panic

ThmGetAcceptsCanonicalOnly ==
  (got # Nil /\ Deref(got).fn = "Get") => GetResult(Deref(got))

WitGetAcceptsCanonicalOnly ==
  /\ got # Nil
  /\ Deref(got).fn = "Get"
  /\ Deref(got).flag = <<"b">>
  /\ Deref(got).panic
  /\ NoUserCallback
  /\ args = << <<"-", "b">>, <<"v">> >>
  /\ Get(opt, s.aliases[<<"b">>]).val = <<"v">>

(***************************************************************************)
(* C18.  With a user callback installed, the callback is invoked once per  *)
(* flag read by the loop, in reading order, with the name as typed: the    *)
(* text of the token up to its "=", without its dashes.  For a flag that   *)
(* is not a cluster, the value is: for a known option with an argument,    *)
(* the inline value, or else the next token, which is consumed, or nil if  *)
(* there is none; for a known option without argument, nil; for an unknown *)
(* option without inline value, the next token if it does not start with a *)
(* dash, nil otherwise; for an unknown option with an inline value, that   *)
(* value or nil.  Nothing reaches the usage/exit collaborator, whatever    *)
(* UnknownOptionsFatal, and the tokens that are not flags go to Extra.     *)
(***************************************************************************)
\* a user callback is installed
WithUserCallback == s.ParseCallback # "nil"

\* the token has an inline value
HasInline(token) == IndexOf(token, "=") # 0

\* the inline value of the token
InlineOf(token) == Drop(token, IndexOf(token, "="))

\* the token without its inline value
TextOf(token) ==
  IF HasInline(token) THEN SubSeq(token, 1, IndexOf(token, "=") - 1) ELSE token

\* the number of dashes in front of the name: two when a name remains
DashesOf(token) ==
  IF Len(TextOf(token)) > 2 /\ token[1] = "-" /\ token[2] = "-" THEN 2 ELSE 1

\* the token after k has not been consumed as a value
NextNotConsumed(k) == k = Len(args) \/ k + 1 \in Scanned \/ i = k + 1

\* the token after k has been consumed as the value v
NextConsumedAs(v, k) == k < Len(args) /\ k + 1 \notin Scanned /\ v = Ptr(args[k + 1])

\* v is the value handed to the callback for the flag at k, named name
ValueHanded(v, name, k) ==
  IF TakesArg(name)
    THEN IF HasInline(args[k]) THEN v = Ptr(InlineOf(args[k])) /\ NextNotConsumed(k)
         ELSE IF k < Len(args) THEN NextConsumedAs(v, k)
         ELSE v = Nil
  ELSE IF TakesNoArg(name) THEN v = Nil /\ NextNotConsumed(k)
  ELSE IF HasInline(args[k])
    THEN v \in {Nil, Ptr(InlineOf(args[k]))} /\ NextNotConsumed(k)
  ELSE IF k < Len(args) /\ ~HasDashPrefix(args[k + 1]) THEN NextConsumedAs(v, k)
  ELSE v = Nil /\ NextNotConsumed(k)

\* c is the invocation of the callback for the flag at k
InvocationOf(c, k) ==
  /\ c[1] = Drop(TextOf(args[k]), DashesOf(args[k]))
  /\ ~IsCluster(FlagRe(args[k])) => ValueHanded(c[2], c[1], k)

ThmCallbackGetsEveryFlag ==
  WithUserCallback =>
    /\ Len(cbLog) = Len(ScannedFlags)
    /\ \A e \in 1..Len(ScannedFlags) : InvocationOf(cbLog[e], ScannedFlags[e])
    /\ exitLog = <<>>
    /\ errLog = <<>>
    /\ opt.Flags = <<>>
    /\ ~s.UnknownValuesFatal =>
         opt.Extra = [e \in 1..Len(ScannedPositionals) |-> args[ScannedPositionals[e]]]

WitCallbackGetsEveryFlag ==
  /\ WithUserCallback
  /\ s.UnknownOptionsFatal
  /\ pc = "returned"
  /\ args = << <<"a", "=", "v">>, <<"-", "-", "u">>, <<"-", "-", "c", "c", "=", "v">> >>
  /\ cbLog = << <<(<<"u">>), Nil>>, <<(<<"c", "c">>), Ptr(<<"v">>)>> >>
  /\ opt.Extra = << <<"a", "=", "v">> >>

(***************************************************************************)
(* C19.  An iteration that reads a single-dash token whose name has        *)
(* several characters and is a registered alias is one occurrence of the   *)
(* canonical option of that name: a counter goes up by one, an option with *)
(* an argument gets the inline value or the next token, and nothing else   *)
(* is stored.  The code decodes the token character by character, so this  *)
(* is violated; the same statement holds for the two-dash form.            *)
(***************************************************************************)
\* the loop is about to read the flag at i under the standard callback
ReadsFlag == NoUserCallback /\ pc = "loop" /\ i <= Len(args) /\ OptionAt(i)

\* the iteration is one well-formed occurrence of the option called name
OneOccurrence(name) ==
  IF TakesNoArg(name) /\ ~HasInline(args[i])
    THEN /\ pc' = "loop"
         /\ ~GetInt(opt', s.aliases[name]).panic
         /\ GetInt(opt', s.aliases[name]).num = GetInt(opt, s.aliases[name]).num + 1
         /\ \A c \in DOMAIN opt'.opts \ {s.aliases[name]} :
              c \in DOMAIN opt.opts /\ opt'.opts[c] = opt.opts[c]
  ELSE IF TakesArg(name) /\ (HasInline(args[i]) \/ i < Len(args))
    THEN /\ pc' = "loop"
         /\ opt'.opts = (s.aliases[name] :>
                           IF HasInline(args[i]) THEN InlineOf(args[i]) ELSE args[i + 1])
                        @@ opt.opts
  ELSE TRUE

CexDashedAliasIsOneOccurrence ==
  [][(ReadsFlag /\ DashedAlias(i)) =>
       OneOccurrence(FlagRe(args[i]).presentedFlagName)]_vars

\* the two-dash form of a registered alias of several characters
DoubleDashedAlias(k) ==
  /\ FlagRe(args[k]).presentedDash = <<"-", "-">>
  /\ Len(FlagRe(args[k]).presentedFlagName) > 1
  /\ FlagRe(args[k]).presentedFlagName \in DOMAIN s.aliases

DoubleDashedAliasIsOneOccurrence ==
  [][(ReadsFlag /\ DoubleDashedAlias(i)) =>
       OneOccurrence(FlagRe(args[i]).presentedFlagName)]_vars

(***************************************************************************)
(* C20.  Once Exit has been called during Parse, whether from the engine   *)
(* or from a callback, no step of the call follows: no token is read, the  *)
(* callback is not invoked, nothing is written to the Options, and Parse   *)
(* does not return.  This is violated when the Exit function returns: the  *)
(* code after every call of PrintUsageAndExit is reached and the loop goes *)
(* on.  It holds for os.Exit and for an Exit function that panics.         *)
(***************************************************************************)
\* Exit has been called during this call of Parse
ExitCalled == exitLog # <<>>

\* the step reads no token, invokes no callback, writes nothing and does
\* not return
NothingMore ==
  /\ scanned' = scanned
  /\ cbLog' = cbLog
  /\ opt' = opt
  /\ pc' # "returned"

CexExitEndsParse == [][ExitCalled => NothingMore]_vars

\* the Exit function installed does not return to its caller
ExitDoesNotReturn == s.Exit \in {"os.Exit", "exitToPanic"}

\* with such a function the call is over as soon as Exit is called, on the
\* token read last
ExitEndsParseUnlessExitReturns ==
  (ExitCalled /\ ExitDoesNotReturn) =>
    /\ pc = (IF s.Exit = "os.Exit" THEN "exited" ELSE "panicked")
    /\ ~ENABLED Next
    /\ Len(exitLog) = 1
    /\ scanned # <<>>
    /\ \A e \in 1..Len(scanned) : scanned[e] <= scanned[Len(scanned)]
    /\ Len(cbLog) <= Len(ScannedFlags)

(***************************************************************************)
(* C21.  After PrintUsageAndExit(""), the usage alone has been written to  *)
(* the success sink and Exit has been called once, with 0.  After          *)
(* PrintUsageAndExit(err) with an error string, the error and then the     *)
(* usage have been written to the error sink and Exit has been called      *)
(* once, with 64.  The first half is violated when the Exit function       *)
(* returns: the statements of the error case follow without an else.  Both *)
(* halves hold for os.Exit and for an Exit function that panics.           *)
(***************************************************************************)
\* the program has called PrintUsageAndExit
UsageCalled == got # Nil /\ Deref(got).fn = "PrintUsageAndExit"

\* where the usage goes when no error is given, and where errors go
SuccessSink == IF s.ErrorWriter = "nil" THEN "os.Stdout" ELSE "ErrorWriter"

ErrorSink == IF s.ErrorWriter = "nil" THEN "os.Stderr" ELSE "ErrorWriter"

\* what has been written and the statuses Exit got are those of one call
\* with the error string err
UsageContract(err) ==
  IF err = NoErr
    THEN /\ Len(written) = 1
         /\ written[1].sink = SuccessSink
         /\ written[1].vs = <<s.Usage>>
         /\ exitLog = <<0>>
    ELSE /\ Len(written) = 1
         /\ written[1].sink = ErrorSink
         /\ written[1].vs = <<err, s.Usage>>
         /\ exitLog = <<64>>

CexUsageExitStatus == UsageCalled => UsageContract(Deref(got).err)

UsageExitStatusUnlessExitReturns ==
  (UsageCalled /\ (ExitDoesNotReturn \/ Deref(got).err # NoErr)) =>
    UsageContract(Deref(got).err)

(***************************************************************************)
(* C22.  Under the standard callback, once the loop has read a token that  *)
(* is one of the four errors of the command line (an option with an        *)
(* argument as the last token, without inline value; an inline value on an *)
(* option without argument; an unknown option with UnknownOptionsFatal; a  *)
(* token that is not a flag with UnknownValuesFatal), Exit has been called *)
(* with a status other than 0 and the call has ended there, not by a       *)
(* panic.  The code panics on the fourth and counts the second, so this is *)
(* violated; it holds for the first and the third.                         *)
(***************************************************************************)
\* the name of the flag at k as typed
NameAt(k) == FlagRe(args[k]).presentedFlagName

\* the token at k is a flag that does not have the form of a cluster
PlainFlagAt(k) ==
  /\ OptionAt(k)
  /\ FlagRe(args[k]).presentedDash = <<"-", "-">> \/ Len(NameAt(k)) = 1

MissingArgumentAt(k) ==
  PlainFlagAt(k) /\ TakesArg(NameAt(k)) /\ ~HasInline(args[k]) /\ k = Len(args)

InlineOnSwitchAt(k) ==
  PlainFlagAt(k) /\ TakesNoArg(NameAt(k)) /\ HasInline(args[k])

FatalUnknownAt(k) ==
  PlainFlagAt(k) /\ NameAt(k) \notin DOMAIN s.aliases /\ s.UnknownOptionsFatal

FatalPositionalAt(k) == PositionalAt(k) /\ s.UnknownValuesFatal

\* the call has ended in Exit with a status other than 0
ReportedThroughExit ==
  /\ pc = "exited"
  /\ panicMsg = Nil
  /\ Len(exitLog) = 1
  /\ exitLog[1] # 0

CexParseErrorsGoThroughExit ==
  NoUserCallback =>
    \A k \in Scanned :
      (MissingArgumentAt(k) \/ InlineOnSwitchAt(k) \/ FatalUnknownAt(k)
         \/ FatalPositionalAt(k)) => ReportedThroughExit

MissingAndUnknownGoThroughExit ==
  NoUserCallback =>
    \A k \in Scanned :
      (MissingArgumentAt(k) \/ FatalUnknownAt(k)) =>
        ReportedThroughExit /\ k = scanned[Len(scanned)]

\* the fourth error ends the call by a panic, without a call of Exit
FatalPositionalPanics ==
  NoUserCallback =>
    \A k \in Scanned :
      FatalPositionalAt(k) => pc = "panicked" /\ exitLog = <<>> /\ written = <<>>

(***************************************************************************)
(* C23.  With a user callback installed, once the loop has read a cluster  *)
(* of declared one-character options, the callback has been invoked once   *)
(* for each character of the cluster, in their order and one after the     *)
(* other, with that character as the name, and with no value except        *)
(* possibly for the last.  The code decodes clusters in the standard       *)
(* callback only: a user callback is invoked once, with the whole cluster  *)
(* as the name, so this is violated.                                       *)
(***************************************************************************)
\* the token at k is a cluster whose characters are all declared names
ClusterOfDeclaredAt(k) ==
  /\ OptionAt(k)
  /\ IsCluster(FlagRe(args[k]))
  /\ NameAt(k) \notin DOMAIN s.aliases
  /\ \A j \in 1..Len(NameAt(k)) : <<NameAt(k)[j]>> \in DOMAIN s.aliases

\* the invocations from e on are those of the characters of the cluster at k
DecodedFrom(e, k) ==
  /\ e + Len(NameAt(k)) - 1 <= Len(cbLog)
  /\ \A j \in 1..Len(NameAt(k)) :
       /\ cbLog[e + j - 1][1] = <<NameAt(k)[j]>>
       /\ j < Len(NameAt(k)) => cbLog[e + j - 1][2] = Nil

CexCallbackGetsEveryClusteredCharacter ==
  WithUserCallback =>
    \A k \in Scanned :
      ClusterOfDeclaredAt(k) => \E e \in 1..Len(cbLog) : DecodedFrom(e, k)

\* the cluster at k has a value: its own, or the next token when its last
\* character is an option with an argument or that token has no dash
ClusterHasValueAt(k) ==
  \/ HasInline(args[k])
  \/ /\ k < Len(args)
     /\ \/ TakesArg(<<NameAt(k)[Len(NameAt(k))]>>)
        \/ ~HasDashPrefix(args[k + 1])

\* what the code does: one invocation for the cluster, named as typed
ClusterIsOneInvocation ==
  WithUserCallback =>
    /\ Len(cbLog) = Len(ScannedFlags)
    /\ \A e \in 1..Len(ScannedFlags) :
         ClusterOfDeclaredAt(ScannedFlags[e]) =>
           /\ cbLog[e][1] = NameAt(ScannedFlags[e])
           /\ (cbLog[e][2] # Nil) = ClusterHasValueAt(ScannedFlags[e])

(***************************************************************************)
(* C24.  In a program that calls Parse again and again on one OptionSpec,  *)
(* the OptionSpec stays what NewOptions and the setters made it, and every *)
(* call that returns, returns what Parse returns for the same tokens on an *)
(* OptionSpec compiled anew from the same text and configured alike:       *)
(* nothing of the calls before is in it.                                   *)
(***************************************************************************)
\* the OptionSpec compiled anew from the text, configured as s is
FreshSpec ==
  SetErrorWriter(
    SetExit(
      SetParseCallback(
        SetUnknownValuesFatal(
          SetUnknownOptionsFatal(NewOptions(src), s.UnknownOptionsFatal),
          s.UnknownValuesFatal),
        s.ParseCallback),
      s.Exit),
    s.ErrorWriter)

\* the program has a result of an earlier call
CalledBefore == got # Nil /\ Deref(got).fn = "Parse"

ThmParseResultIsFresh ==
  /\ s = FreshSpec
  /\ pc = "returned" =>
       /\ Parse(FreshSpec, args).pc = "returned"
       /\ Parse(FreshSpec, args).opt = opt

WitParseResultIsFresh ==
  /\ CalledBefore
  /\ Deref(got).args = << <<"-", "a">>, <<"-", "-", "c", "c", "=", "v">> >>
  /\ GetInt(Deref(got).opt, <<"a", "a">>).num = 1
  /\ Deref(got).opt.opts[<<"c", "c">>] = <<"v">>
  /\ NoUserCallback
  /\ pc = "returned"
  /\ args = << <<"-", "a">>, <<"v">> >>
  /\ GetInt(opt, <<"a", "a">>).num = 1
  /\ opt.opts[<<"c", "c">>] = <<"d">>
  /\ opt.Flags = << << <<"-", "a">> >> >>
  /\ opt.Extra = << <<"v">> >>

(***************************************************************************)
(* C25.  Of two calls of Parse on one OptionSpec whose iterations are      *)
(* interleaved in any order, each, when it returns, returns what Parse     *)
(* returns for its tokens when it runs alone; and at every moment the      *)
(* Options of each call is what the tokens it has read so far make of it   *)
(* when it runs alone.  The stream the two calls write to holds nothing    *)
(* but messages that one of them writes when it runs alone.                *)
(***************************************************************************)
\* fr is the frame of a call on a that runs alone and has done as many
\* iterations as the call has read tokens
RECURSIVE AloneAfter(_, _, _)
AloneAfter(a, fr, steps) ==
  IF steps = 0 \/ ~InLoop(a, fr) THEN fr
  ELSE AloneAfter(a, Step(s, a, fr), steps - 1)

\* the number of iterations done by a call that has read these tokens
Iterations(sc) == Cardinality(Range(sc))

ThmConcurrentCallsAreIndependent ==
  /\ opt = AloneAfter(args, NewFrame(s), Iterations(scanned)).opt
  /\ OtherFrame.opt =
       AloneAfter(OtherArgs, NewFrame(s), Iterations(OtherFrame.scanned)).opt
  /\ pc = "returned" =>
       Parse(s, args).pc = "returned" /\ Parse(s, args).opt = opt
  /\ OtherFrame.pc = "returned" =>
       /\ Parse(s, OtherArgs).pc = "returned"
       /\ Parse(s, OtherArgs).opt = OtherFrame.opt
  /\ \A k \in 1..Len(written) :
       written[k] \in Range(Parse(s, args).written) \cup Range(Parse(s, OtherArgs).written)

\* both calls have written their message and neither has called os.Exit yet
BothCallsHaveWritten ==
  /\ pc = AtExit(EX_USAGE)
  /\ OtherFrame.pc = AtExit(EX_USAGE)
  /\ args = << <<"-", "b">> >>
  /\ OtherArgs = << <<"-", "b">> >>
  /\ Len(written) = 2
  /\ exitLog = <<>> /\ OtherFrame.exitLog = <<>>

WitConcurrentCallsAreIndependent ==
  /\ NoUserCallback
  /\ src = LinesA
  /\ args = << <<"-", "a">>, <<"-", "a">> >>
  /\ OtherArgs = << <<"-", "-", "c", "c", "=", "v">>, <<"-", "a">> >>
  /\ pc = "loop" /\ i = 2
  /\ OtherFrame.pc = "loop" /\ OtherFrame.i = 2
  /\ GetInt(opt, <<"a", "a">>).num = 1
  /\ opt.opts[<<"c", "c">>] = <<"d">>
  /\ <<"a", "a">> \notin DOMAIN OtherFrame.opt.opts
  /\ OtherFrame.opt.opts[<<"c", "c">>] = <<"v">>

(***************************************************************************)
(* C26.  GetAll(flag, log) panics exactly when an entry of the log that is *)
(* presented as flag has no value.  Otherwise it returns one value for     *)
(* each entry presented as flag, letter for letter, in the order of the    *)
(* log: the empty list when there is none.  Entries presented otherwise,   *)
(* as another alias of the same option or without the dashes, do not       *)
(* count.                                                                  *)
(***************************************************************************)
\* the caller has evaluated GetAll
GetAllCalled == got # Nil /\ Deref(got).fn = "GetAll"

\* the places of the log whose entry is presented as flag
Matching(flag) == {k \in 1..Len(opt.Flags) : opt.Flags[k][1] = flag}

\* the place k is the j-th of them
NthMatching(flag, k, j) ==
  k \in Matching(flag) /\ Cardinality({m \in Matching(flag) : m <= k}) = j

\* g is a correct result of GetAll
GetAllResult(g) ==
  /\ g.panic = (\E k \in Matching(g.flag) : Len(opt.Flags[k]) = 1)
  /\ ~g.panic =>
       /\ Len(g.val) = Cardinality(Matching(g.flag))
       /\ \A j \in 1..Len(g.val) :
            \E k \in Matching(g.flag) :
              NthMatching(g.flag, k, j) /\ g.val[j] = opt.Flags[k][2]

ThmGetAllFiltersByPresentedText == GetAllCalled => GetAllResult(Deref(got))

WitGetAllFiltersByPresentedText ==
  /\ GetAllCalled
  /\ opt.Flags = << << <<"-", "-", "c", "c">>, <<"w">> >>,
                   << <<"-", "b">> >>,
                   << <<"-", "-", "c", "c">>, <<"v">> >> >>
  /\ Deref(got).flag = <<"-", "-", "c", "c">>
  /\ ~Deref(got).panic
  /\ Deref(got).val = << <<"w">>, <<"v">> >>

(***************************************************************************)
(* C27.  With a user callback installed, the callback is never invoked     *)
(* without a value under the name of an option with an argument, and once  *)
(* the loop has read such an option as the last token, without inline      *)
(* value, the call has ended fatally.  The code invokes the callback with  *)
(* nil and returns, so this is violated.                                   *)
(***************************************************************************)
CexCallbackNeverGetsMissingArgument ==
  WithUserCallback =>
    /\ \A e \in 1..Len(cbLog) : TakesArg(cbLog[e][1]) => cbLog[e][2] # Nil
    /\ \A k \in Scanned : MissingArgumentAt(k) => Fatal

\* what the code does: the last invocation is the one of that option,
\* without a value, and the call goes on to its return
CallbackGetsNilForMissingArgument ==
  WithUserCallback =>
    \A k \in Scanned :
      MissingArgumentAt(k) =>
        /\ ~Fatal
        /\ exitLog = <<>>
        /\ cbLog # <<>>
        /\ cbLog[Len(cbLog)] = <<NameAt(k), Nil>>

(***************************************************************************)
(* C28.  With a user callback installed, Parse writes no value and no      *)
(* Flags entry: at every moment the values are the defaults of the         *)
(* OptionSpec and nothing else, and Flags is empty.  When the call         *)
(* returns, Extra holds the tokens read that are not flags and Leftover    *)
(* the tokens after the terminator, and both are those of the same call    *)
(* under the standard callback whenever that call returns too.             *)
(***************************************************************************)
\* the same OptionSpec without its callback
DefaultMode == SetParseCallback(s, "nil")

ThmCallbackModeWritesNoValues ==
  WithUserCallback =>
    /\ DOMAIN opt.opts = DOMAIN s.defaults
    /\ \A c \in DOMAIN s.defaults : opt.opts[c] = s.defaults[c]
    /\ opt.Flags = <<>>
    /\ pc = "returned" =>
         /\ opt.Extra =
              [e \in 1..Len(ScannedPositionals) |-> args[ScannedPositionals[e]]]
         /\ \A k \in 1..Len(args) :
              TerminatorAt(k) => opt.Leftover = SubSeq(args, k + 1, Len(args))
         /\ (~\E k \in 1..Len(args) : TerminatorAt(k)) => opt.Leftover = <<>>
         /\ Parse(DefaultMode, args).pc = "returned" =>
              /\ Parse(DefaultMode, args).opt.Extra = opt.Extra
              /\ Parse(DefaultMode, args).opt.Leftover = opt.Leftover

WitCallbackModeWritesNoValues ==
  /\ WithUserCallback
  /\ pc = "returned"
  /\ args = << <<"-", "-", "c", "c", "=", "v">>, <<"-", "-">>, <<"v">> >>
  /\ cbLog = << <<(<<"c", "c">>), Ptr(<<"v">>)>> >>
  /\ s.defaults = (<<"c", "c">> :> <<"d">>)
  /\ opt.opts = (<<"c", "c">> :> <<"d">>)
  /\ opt.Flags = <<>>
  /\ opt.Extra = <<>>
  /\ opt.Leftover = << <<"v">> >>
  /\ Parse(DefaultMode, args).pc = "returned"

(***************************************************************************)
(* C29.  Under the standard callback, when the flag read last is a known   *)
(* option with an argument, alone or as the last character of a cluster,   *)
(* without inline value and with a token after it, that token is not read  *)
(* by the loop, whatever it is, and it is the value stored for the option; *)
(* if it is "--", scanning has not stopped and Leftover is empty.  Alone,  *)
(* the option is never an error.  This is violated by the single-dash form *)
(* of a registered name of several characters, which the standard callback *)
(* decodes as a cluster; it holds for all other flags.                     *)
(***************************************************************************)
\* the last character of the name of the flag at k
LastCharAt(k) == <<NameAt(k)[Len(NameAt(k))]>>

\* the flag at k is a known option with an argument, alone
AloneWithArgAt(k) == OptionAt(k) /\ TakesArg(NameAt(k))

\* the flag at k is a cluster whose last character is such an option
ClusterWithArgAt(k) ==
  OptionAt(k) /\ IsCluster(FlagRe(args[k])) /\ TakesArg(LastCharAt(k))

\* the flag at k takes its value from the token after it
ValueFollowsAt(k) ==
  /\ AloneWithArgAt(k) \/ ClusterWithArgAt(k)
  /\ ~HasInline(args[k])
  /\ k < Len(args)

\* the canonical name of the option that gets the value
ValuedAt(k) ==
  IF AloneWithArgAt(k) THEN s.aliases[NameAt(k)] ELSE s.aliases[LastCharAt(k)]

\* the token after k has been taken verbatim as the value
NextTokenIsTheValue(k) ==
  /\ k + 1 \notin Scanned
  /\ AloneWithArgAt(k) => ~Fatal
  /\ ~Fatal =>
       /\ ValuedAt(k) \in DOMAIN opt.opts
       /\ opt.opts[ValuedAt(k)] = args[k + 1]
       /\ pc # "break"
       /\ opt.Leftover = <<>>
       /\ pc = "loop" => i = k + 2

\* the flag at k is the one the loop read last
ReadLast(k) == scanned # <<>> /\ scanned[Len(scanned)] = k

CexNextTokenIsTheValue ==
  NoUserCallback =>
    \A k \in 1..Len(args) :
      (ReadLast(k) /\ ValueFollowsAt(k)) => NextTokenIsTheValue(k)

NextTokenIsTheValueButDashedAlias ==
  NoUserCallback =>
    \A k \in 1..Len(args) :
      (ReadLast(k) /\ ValueFollowsAt(k) /\ ~DashedAlias(k)) =>
        NextTokenIsTheValue(k)

\* a state in which "--" has been taken as a value
TerminatorTakenAsValue ==
  /\ NoUserCallback
  /\ pc = "returned"
  /\ args = << <<"-", "a", "b">>, <<"-", "-">>, <<"v">> >>
  /\ opt.opts[<<"c", "c">>] = <<"-", "-">>
  /\ opt.Extra = << <<"v">> >>
  /\ opt.Leftover = <<>>

(***************************************************************************)
(* C30.  When a call under the standard callback returns, every token is   *)
(* accounted for once: the number of tokens is the number of tokens in     *)
(* Extra, plus those in Leftover, plus one for the terminator if one was   *)
(* read, plus the number of Flags entries, plus the number of Flags        *)
(* entries with a value whose flag had no inline value.  Checked for every *)
(* Exit function a program can install.                                    *)
(***************************************************************************)
\* the Flags entries whose value is the token after the flag
ValuesFromNext ==
  {e \in 1..Len(opt.Flags) :
     /\ e <= Len(ScannedFlags)
     /\ Len(opt.Flags[e]) = 2
     /\ ~HasInline(args[ScannedFlags[e]])}

\* one for the terminator the loop has read, if any
TerminatorRead == IF \E k \in 1..Len(args) : TerminatorAt(k) THEN 1 ELSE 0

\* the count of the claim, in a call that has returned
TokensAccounted ==
  /\ Len(opt.Flags) = Len(ScannedFlags)
  /\ Len(args) = Len(opt.Extra) + Len(opt.Leftover) + TerminatorRead
                   + Len(opt.Flags) + Cardinality(ValuesFromNext)

CexTokensAreConserved ==
  (NoUserCallback /\ pc = "returned") => TokensAccounted

\* with an Exit function that does not return, or when Exit was not called,
\* the count holds
TokensAreConservedUnlessExitReturns ==
  (NoUserCallback /\ pc = "returned" /\ (ExitDoesNotReturn \/ ~ExitCalled)) =>
    TokensAccounted

\* a call where every part of the count is exercised by three tokens
TokensAreConservedReached ==
  /\ NoUserCallback
  /\ pc = "returned"
  /\ args = << <<"-", "b">>, <<"-", "-">>, <<"v">> >>
  /\ opt.Flags = << << <<"-", "b">>, <<"-", "-">> >> >>
  /\ opt.Extra = << <<"v">> >>
  /\ opt.Leftover = <<>>
  /\ ValuesFromNext = {1}
  /\ TerminatorRead = 0

\* a call that returns after Exit came back: the flag read is in no part
TokenLostAfterExitReturned ==
  /\ NoUserCallback
  /\ pc = "returned"
  /\ s.Exit = "returns"
  /\ args = << <<"-", "b">> >>
  /\ exitLog = <<EX_USAGE>>
  /\ opt.Flags = <<>> /\ opt.Extra = <<>> /\ opt.Leftover = <<>>

(***************************************************************************)
(* Vocabulary of the properties of NewOptions.                             *)
(***************************************************************************)
\* the index of the separator line, 0 when the text has none
SeparatorAt == IndexOf(Lines, <<"-", "-">>)

\* line k declares an option and the loop has read it
OptionLineRead(k) ==
  /\ SeparatorAt # 0
  /\ k > SeparatorAt
  /\ k < n \/ (k = n /\ pc = "panicked")
  /\ FlagSpec(Lines[k]).matched

\* the names line k declares
NamesOf(k) == Split(FlagSpec(Lines[k]).names, ",")

\* the last name of line k
CanonicalOf(k) == NamesOf(k)[Len(NamesOf(k))]

\* the name stands at two places of the option lines read
DeclaredTwice(name) ==
  \E k1, k2 \in 1..Len(Lines) :
    /\ OptionLineRead(k1)
    /\ OptionLineRead(k2)
    /\ \E j1 \in 1..Len(NamesOf(k1)), j2 \in 1..Len(NamesOf(k2)) :
         /\ <<k1, j1>> # <<k2, j2>>
         /\ NamesOf(k1)[j1] = name
         /\ NamesOf(k2)[j2] = name

(***************************************************************************)
(* C16.  As soon as NewOptions has read a name that stands at two places   *)
(* of the option lines (on two lines, as an alias or as the canonical      *)
(* name, or twice on one line), it has panicked and returns no OptionSpec. *)
(* The panic is "duplicate name", naming a name that stands at two places, *)
(* unless an empty or dash-only name came first on the line.               *)
(***************************************************************************)
ThmDuplicateNameIsFatal ==
  \A k \in 1..Len(Lines) :
    OptionLineRead(k) =>
      \A j \in 1..Len(NamesOf(k)) :
        DeclaredTwice(NamesOf(k)[j]) =>
          /\ pc = "panicked"
          /\ ~s.ok
          /\ Deref(panicMsg).text \in {"duplicate name", "bad name"}
          /\ Deref(panicMsg).text = "duplicate name" => DeclaredTwice(Deref(panicMsg).subject)

WitDuplicateNameIsFatal ==
  /\ pc = "panicked"
  /\ n = 4
  /\ Lines[3] = <<"b", ",", "c", "c", "=", " ", "[", "d", "]">>
  /\ Lines[4] = <<"c", "c", ",", "b", " ", "x">>
  /\ panicMsg = Ptr(Msg("duplicate name", <<"c", "c">>))
  /\ ~s.ok

(***************************************************************************)
(* C17.  As long as NewOptions has not panicked, the alias table maps      *)
(* every name of every option line read to the last name of its line, and  *)
(* holds nothing else, so that it is idempotent; the last name of a line   *)
(* is in requiresArg exactly when "=" follows the names of the line, and   *)
(* has a default exactly when the line ends in "]" after a "[".            *)
(***************************************************************************)
\* the names of the line are followed by "="
HasMarker(l) ==
  PrefixLen(l, SpecNameChars) < Len(l) /\ l[PrefixLen(l, SpecNameChars) + 1] = "="

\* the line ends in a bracketed literal
EndsInBracketed(l) ==
  l # <<>> /\ l[Len(l)] = "]" /\ \E k \in 1..(Len(l) - 1) : l[k] = "["

ThmAliasTableIsCanonical ==
  pc # "panicked" =>
    /\ s.ok
    /\ \A k \in 1..Len(Lines) :
         OptionLineRead(k) =>
           /\ \A j \in 1..Len(NamesOf(k)) :
                /\ NamesOf(k)[j] \in DOMAIN s.aliases
                /\ s.aliases[NamesOf(k)[j]] = CanonicalOf(k)
           /\ CanonicalOf(k) \in DOMAIN s.requiresArg <=> HasMarker(Lines[k])
           /\ CanonicalOf(k) \in DOMAIN s.defaults <=> EndsInBracketed(Lines[k])
    /\ \A x \in DOMAIN s.aliases :
         /\ \E k \in 1..Len(Lines) :
              OptionLineRead(k) /\ \E j \in 1..Len(NamesOf(k)) : NamesOf(k)[j] = x
         /\ s.aliases[x] \in DOMAIN s.aliases
         /\ s.aliases[s.aliases[x]] = s.aliases[x]
    /\ \A c \in DOMAIN s.requiresArg : s.requiresArg[c]

WitAliasTableIsCanonical ==
  /\ pc = "compiled"
  /\ Len(Lines) = 5
  /\ Lines[3] = <<"e", " ", "[", "1", "]", " ", "z">>
  /\ Lines[4] = <<"b", ",", "c", "c", "=", " ", "[", "d", "]">>
  /\ Lines[5] = <<"a", ",", "a", "a", " ", "x">>
  /\ s.aliases[<<"b">>] = <<"c", "c">>
  /\ s.aliases[<<"a">>] = <<"a", "a">>
  /\ s.aliases[<<"a", "a">>] = <<"a", "a">>
  /\ s.requiresArg = (<<"c", "c">> :> TRUE)
  /\ s.defaults = (<<"c", "c">> :> <<"d">>)

====
